---- MODULE Spec2Model ----
(***************************************************************************)
(* A model of the typed-field and expression core of cargo-orm:            *)
(*   - OneOf (enumerated) fields            cargo/fields/sequence.py       *)
(*   - Array fields and their list mutation cargo/fields/sequence.py       *)
(*   - Bit fields                           cargo/fields/bit.py            *)
(*   - copies of fields, on a heap of objects                              *)
(*   - the expression tree and its compiler, Case and set operations       *)
(*   - BaseCreator                          cargo/builder/utils.py         *)
(*   - __call__ of every field class, None and the `empty` sentinel        *)
(*   - register_type of OneOf, by one caller and by several threads        *)
(*   - the codecs (to_db, to_python) and the array adapter                 *)
(*   - OneOf.type_name and validate()                                      *)
(*   - the Postgres client, its hooks and the pool     cargo/clients.py    *)
(*   - the password hasher                  bloom/fields/extras.py         *)
(* Python values are tagged records, so that a string, a list, a tuple,    *)
(* None and the `empty` sentinel stay distinct values.  Compiled SQL is a  *)
(* sequence of tokens.                                                     *)
(***************************************************************************)
EXTENDS Integers, Sequences, FiniteSets, TLC

VARIABLES
    oneof,      \* the OneOf field under test
    olast,      \* what the last operation on `oneof` was given and did
    arr,        \* the Array field under test
    alast,      \* what the last operation on `arr` was given and did
    ast,        \* the expression tree under construction, and what went in
    cs,         \* the Case builder, and the arguments its calls were given
    sq,         \* the set-operation query, and the combinations that made it
    cw,         \* the heap of a field and its copy, and the last operation
    fd,         \* a field of some class, and the last call made on it
    rg,         \* the fields being registered, the database and the registration table
    th,         \* the threads calling register_type on one field, and what they share
    cdc,        \* a value on its way through a codec, to the database and back
    tn,         \* two OneOf fields and the table and column each is bound to
    vl,         \* the field being validated, and the last operation on it
    pg,         \* a Postgres client, its connections and its last call
    pl,         \* a client or pool on which type identifiers are looked up
    hs,         \* a password hasher, the hash it keeps and its last call
    tg          \* an Array field that is bound while it holds values

oneofVars == <<oneof, olast>>
arrVars == <<arr, alast>>
astVars == <<ast>>
csVars == <<cs>>
sqVars == <<sq>>
cwVars == <<cw>>
fdVars == <<fd>>
rgVars == <<rg>>
thVars == <<th>>
cdcVars == <<cdc>>
tnVars == <<tn>>
vlVars == <<vl>>
pgVars == <<pg>>
plVars == <<pl>>
hsVars == <<hs>>
tgVars == <<tg>>
vars == <<oneof, olast, arr, alast, ast, cs, sq, cw, fd, rg, th, cdc, tn, vl, pg, pl, hs, tg>>

(***************************************************************************)
(* Bounds of the model.                                                    *)
(***************************************************************************)
MaxTypes == 2       \* longest `types` tuple a OneOf field is built with
MaxDim == 2         \* largest `dimensions` an Array field is built with
MaxLen == 2         \* longest list stored in, or given to, an Array field
MaxNodes == 2       \* most nodes wrapped around the leaf of an expression tree
MaxPairs == 3       \* most condition/result pairs given to one Case
MaxEls == 2         \* most el() calls made on one Case
MaxChain == 3       \* most combinations chained into one set operation
MaxCopyOps == 2     \* most operations on a field and its copy
MaxRegOps == 4      \* most registrations, copies and type creations
MaxRegFields == 2   \* most fields: the field registered and its copies
MaxThreads == 2     \* most threads calling register_type at once
MaxBytes == 3       \* most bytes in a value given to Binary
MaxRaw == 4         \* most bytes in a value stored before, never encoded
MaxBits == 2        \* largest length a Varbit field is given
MaxRepeat == 2      \* validate() calls in a row that are counted
MaxAttach == 2      \* most before()/after() calls made on one client
MaxConns == 2       \* most connections psycopg2 opens for one client
MaxCursors == 1     \* most cursors created on one client
MaxPool == 2        \* largest maxconn a pool is built with
MaxLookups == 4     \* most get_type_OID calls made on one client or pool

(***************************************************************************)
(* Python values.                                                          *)
(***************************************************************************)
None == [tag |-> "None"]
Empty == [tag |-> "empty"]
Str(s) == [tag |-> "str", s |-> s]
List(xs) == [tag |-> "list", items |-> xs]
Tuple(xs) == [tag |-> "tuple", titems |-> xs]
Num(n) == [tag |-> "int", n |-> n]
\* class arraylist(list): a list carrying the __cargotype__ tag
ArrayList(xs, t) == [tag |-> "arraylist", aitems |-> xs, cargotype |-> t]

\* isinstance(x, list): arraylist is a subclass of list
IsList(x) == x.tag \in {"list", "arraylist"}
\* isinstance(x, (list, tuple))
IsListOrTuple(x) == x.tag \in {"list", "arraylist", "tuple"}

\* The characters of the strings of the model, as iterating a str yields them.
CharsOf(s) == <<Str(s)>>
SingleCharStrings == {"a", "b", "z"}

\* iter(x) succeeds
Iterable(x) ==
    \/ IsListOrTuple(x)
    \/ x.tag = "str" /\ x.s \in SingleCharStrings

\* The items iterating x yields.
IterItems(x) ==
    CASE x.tag = "list" -> x.items
      [] x.tag = "arraylist" -> x.aitems
      [] x.tag = "tuple" -> x.titems
      [] x.tag = "str" -> CharsOf(x.s)
      [] OTHER -> <<>>

(***************************************************************************)
(* Exceptions.  A message is kept as its format and the values formatted   *)
(* into it.                                                                *)
(***************************************************************************)
NoErr == [cls |-> "none"]
NotInErr(value, types) ==
    [cls |-> "ValueError", fmt |-> "{} not in {}",
     value |-> value, types |-> types]
DepthErr(dimension, dimensions) ==
    [cls |-> "ValueError",
     fmt |-> "Invalid dimensions ({}): max depth is set to {}",
     dimension |-> dimension, max |-> dimensions]
\* Exceptions Python's list and object protocol raise.
NotIterableErr == [cls |-> "TypeError", what |-> "object is not iterable"]
IndexErr == [cls |-> "IndexError", what |-> "list index out of range"]
NoListErr == [cls |-> "TypeError", what |-> "value is not a list"]
NoAttrErr == [cls |-> "AttributeError", what |-> "value has no such method"]
RemoveErr == [cls |-> "ValueError", what |-> "list.remove(x): x not in list"]
CompareErr == [cls |-> "TypeError", what |-> "'<' not supported"]

(***************************************************************************)
(* x in tuple: Python's membership test on a tuple, by equality.  The      *)
(* members of `types` are strings.                                         *)
(***************************************************************************)
InTypes(value, types) ==
    /\ value.tag = "str"
    /\ \E i \in 1..Len(types) : types[i] = value.s

(***************************************************************************)
(* OneOf.__init__: the field starts unset, with no cached identifiers.     *)
(***************************************************************************)
OneOf__init__(types, type_name) ==
    [types |-> types, _type_name |-> type_name, value |-> Empty,
     table |-> None, field_name |-> None,
     _type_oid |-> None, _type_array_oid |-> None]

(* A OneOf.__call__ that runs None through the membership test. *)
OneOf__call__NoneChecked(f, value) ==
    IF value # Empty
    THEN IF InTypes(value, f.types)
         THEN [f |-> [f EXCEPT !.value = value], err |-> NoErr, ret |-> value]
         ELSE [f |-> f, err |-> NotInErr(value, f.types), ret |-> Empty]
    ELSE [f |-> f, err |-> NoErr, ret |-> f.value]

(***************************************************************************)
(* OneOf.__call__(value): the field after the call, the exception raised   *)
(* (NoErr when none) and the value returned.                               *)
(***************************************************************************)
OneOf__call__(f, value) ==
    IF value # Empty
    THEN IF value = None \/ InTypes(value, f.types)
         THEN [f |-> [f EXCEPT !.value = value], err |-> NoErr, ret |-> value]
         ELSE [f |-> f, err |-> NotInErr(value, f.types), ret |-> Empty]
    ELSE [f |-> f, err |-> NoErr, ret |-> f.value]

(***************************************************************************)
(* OneOf.type_name: the explicit name when one was given, else the string  *)
(* formatted from the bound table and column.                              *)
(***************************************************************************)
OrBlank(x) == IF x = None \/ x = Str("") THEN Str("") ELSE x

OneOf_type_name(f) ==
    IF f._type_name # None /\ f._type_name # Str("")
    THEN f._type_name
    ELSE Str(OrBlank(f.table).s \o "_" \o OrBlank(f.field_name).s
                \o "_enumtype")

\* OneOf.type_name of bloom/fields/sequence.py
BloomOneOf_type_name(f) ==
    Str((IF f._type_name # None /\ f._type_name # Str("")
         THEN f._type_name
         ELSE OrBlank(f.field_name)).s \o "_enum_type")

(***************************************************************************)
(* Copies of a field.  Field.copy makes a new instance of the class by     *)
(* clear_copy, with the same configuration, bound to no table or column    *)
(* and holding no value, and hands the current value over only when asked  *)
(* to preserve it.                                                         *)
(***************************************************************************)
Field_copy(cleared, f, preserve) ==
    IF preserve THEN [cleared EXCEPT !.value = f.value] ELSE cleared

\* A OneOf.clear_copy that leaves the cached identifiers behind.
OneOf_clear_copyNoIds(f) == OneOf__init__(f.types, f._type_name)

\* OneOf.clear_copy: the types and the type name go to the constructor, the
\* cached identifiers are carried over
OneOf_clear_copy(f) ==
    [OneOf__init__(f.types, f._type_name) EXCEPT
        !._type_oid = f._type_oid, !._type_array_oid = f._type_array_oid]

\* copy() of a OneOf field
OneOf_copy(f, preserve) == Field_copy(OneOf_clear_copy(f), f, preserve)

(***************************************************************************)
(* Registration of a OneOf field's database type.  The database is the     *)
(* number of rows of pg_type that match a type name: the type and its      *)
(* array type, the type alone, or nothing.  The registration table maps an *)
(* identifier to the codec registered under it.  register_type runs in     *)
(* steps, one per statement that reads or writes the field, the database   *)
(* or the table, so that calls of several threads can interleave; a frame  *)
(* is the position of one call, the tuple it got from the database and the *)
(* exception that left it.                                                 *)
(***************************************************************************)
\* the identifier the database gave the type of that name, and the one of
\* its array type
OidOf(typname) == Num(16384 + 2 * Len(typname.s))
ArrayOidOf(typname) == Num(OidOf(typname).n + 1)

\* A get_type_OID that gives a pair whatever it found.
get_type_OIDPadded(db, typname) ==
    [k \in 1..2 |-> IF k <= db[typname]
                     THEN <<OidOf(typname), ArrayOidOf(typname)>>[k]
                     ELSE None]

\* BasePostgresClient.get_type_OID(typname): the tuple of the identifiers of
\* the rows found, the type's before its array type's
get_type_OID(db, typname) ==
    SubSeq(<<OidOf(typname), ArrayOidOf(typname)>>, 1, db[typname])

UnpackErr == [cls |-> "ValueError", what |-> "values to unpack"]
NoneOidErr == [cls |-> "TypeError", what |-> "an identifier is None"]

\* the codec made by reg_type and by reg_array_type
EnumCodec(typname) == [name |-> typname, upper |-> TRUE, array |-> FALSE]
ArrayCodec(typname) == [name |-> typname, upper |-> TRUE, array |-> TRUE]

\* reg_type, reg_array_type: the codec goes into the table under the
\* identifier, in place of what was there.  What they do with an identifier
\* of None is the driver's: an entry under None, or a TypeError.
reg_type(table, codec, oid) ==
    LET put == [table |-> {e \in table : e.oid # oid}
                            \cup {[oid |-> oid, codec |-> codec]},
                err |-> NoErr]
    IN  IF oid = None THEN {put, [table |-> table, err |-> NoneOidErr]}
        ELSE {put}

Frame(pc) == [pc |-> pc, OIDs |-> <<>>, err |-> NoErr]

\* the state the calls share: the fields, the database, the round-trips
\* made to it, the warnings emitted, the registration table
Shared(fields, db) ==
    [fields |-> fields, db |-> db, trips |-> 0, warnings |-> 0, table |-> {}]

\* One step of OneOf.register_type on field i: the outcomes, each the
\* shared state and the frame after the step.
\*   check      _register_oid: if self._type_oid is None and ... is None
\*   query      OIDs = db.get_type_OID(self.type_name)
\*   store_oid  self._type_oid, ... = OIDs: unpack, store the first
\*   store_aoid ..., self._type_array_oid = OIDs: store the second
\*   reg_type   ENUMTYPE = reg_type(...upper(), self._type_oid, STRING)
\*   reg_array  reg_array_type(...upper() + 'ARRAY', self._type_array_oid, ..)
\* A ValueError is caught and a warning emitted; any other exception
\* leaves the call.
OneOf_register_type_step(sh, fr, i) ==
    LET f == sh.fields[i]
        typname == OneOf_type_name(f)
        warned == [sh |-> [sh EXCEPT !.warnings = @ + 1],
                   fr |-> [fr EXCEPT !.pc = "done"]]
    IN
    CASE fr.pc = "check" ->
            {[sh |-> sh,
              fr |-> [fr EXCEPT !.pc =
                        IF f._type_oid = None /\ f._type_array_oid = None
                        THEN "query" ELSE "reg_type"]]}
      [] fr.pc = "query" ->
            {[sh |-> [sh EXCEPT !.trips = @ + 1],
              fr |-> [fr EXCEPT !.pc = "store_oid",
                                !.OIDs = get_type_OID(sh.db, typname)]]}
      [] fr.pc = "store_oid" ->
            IF Len(fr.OIDs) # 2
            THEN {warned}
            ELSE {[sh |-> [sh EXCEPT !.fields[i]._type_oid = fr.OIDs[1]],
                   fr |-> [fr EXCEPT !.pc = "store_aoid"]]}
      [] fr.pc = "store_aoid" ->
            {[sh |-> [sh EXCEPT !.fields[i]._type_array_oid = fr.OIDs[2]],
              fr |-> [fr EXCEPT !.pc = "reg_type"]]}
      [] fr.pc = "reg_type" ->
            {IF r.err = NoErr
             THEN [sh |-> [sh EXCEPT !.table = r.table],
                   fr |-> [fr EXCEPT !.pc = "reg_array"]]
             ELSE [sh |-> sh, fr |-> [fr EXCEPT !.pc = "done", !.err = r.err]]
               : r \in reg_type(sh.table, EnumCodec(typname), f._type_oid)}
      [] fr.pc = "reg_array" ->
            {IF r.err = NoErr
             THEN [sh |-> [sh EXCEPT !.table = r.table],
                   fr |-> [fr EXCEPT !.pc = "done"]]
             ELSE [sh |-> sh, fr |-> [fr EXCEPT !.pc = "done", !.err = r.err]]
               : r \in reg_type(sh.table, ArrayCodec(typname),
                                f._type_array_oid)}

\* the steps from a frame to the end of the call
RECURSIVE RunFrom(_, _, _)
RunFrom(sh, fr, i) ==
    IF fr.pc = "done" THEN {[sh |-> sh, fr |-> fr]}
    ELSE UNION {RunFrom(o.sh, o.fr, i) :
                    o \in OneOf_register_type_step(sh, fr, i)}

\* OneOf.register_type(db) on field i, run from start to end by one caller
OneOf_register_type(sh, i) == RunFrom(sh, Frame("check"), i)

(***************************************************************************)
(* Bit fields (cargo/fields/bit.py): a length, and a BitArray value.       *)
(***************************************************************************)
BitArray(bits) == [tag |-> "bitarray", bin |-> bits]

Bit__init__(length) ==
    [length |-> length, value |-> Empty, table |-> None, field_name |-> None]

\* Bit.__call__
Bit__call__(f, value) ==
    IF value # Empty
    THEN [f |-> [f EXCEPT !.value = IF value # None THEN BitArray(value.s)
                                     ELSE None],
          err |-> NoErr]
    ELSE [f |-> f, err |-> NoErr]

\* Bit.copy: the length goes to the constructor
Bit_copy(f, preserve) == Field_copy(Bit__init__(f.length), f, preserve)

(***************************************************************************)
(* Array fields.  The element field `type` is a OneOf field here; calling  *)
(* it normalizes one leaf and leaves the leaf in the element field.        *)
(***************************************************************************)
\* Array.__init__: the element field is a copy of the one given, unset.
Array__init__(type, dimensions, minlen, maxlen) ==
    [type |-> OneOf_copy(type, FALSE), dimensions |-> dimensions,
     minlen |-> minlen, maxlen |-> maxlen, value |-> Empty]

\* self.type(x)
TypeCall(f, x) ==
    LET r == OneOf__call__(f.type, x) IN
    [f |-> [f EXCEPT !.type = r.f], err |-> r.err, res |-> r.ret]

\* Array._get_type_name
Array_get_type_name(f) == OneOf_type_name(f.type)

\* Array._add_arr_type
Array_add_arr_type(f, xs) == ArrayList(xs, Array_get_type_name(f))

\* Field.value_is_null
ValueIsNull(f) == f.value = None \/ f.value = Empty

\* Array._make_list
Array_make_list(f) ==
    IF ValueIsNull(f)
    THEN [f EXCEPT !.value = Array_add_arr_type(f, <<>>)]
    ELSE f

RECURSIVE Array_cast(_, _, _)
RECURSIVE CastItems(_, _, _, _, _)

(* An Array._cast that checks the depth against dimensions + 1. *)
Array_castOffByOne(f, value, dimension) ==
    IF f.dimensions # 0 /\ dimension > f.dimensions + 1
    THEN [f |-> f, err |-> DepthErr(dimension, f.dimensions), res |-> None]
    ELSE IF ~Iterable(value)
    THEN [f |-> f, err |-> NotIterableErr, res |-> None]
    ELSE LET r == CastItems(f, IterItems(value), 1, dimension + 1, <<>>) IN
         IF r.err # NoErr
         THEN [f |-> r.f, err |-> r.err, res |-> None]
         ELSE [f |-> r.f, err |-> NoErr,
               res |-> IF dimension > 1
                       THEN List(r.res)
                       ELSE Array_add_arr_type(r.f, r.res)]

(***************************************************************************)
(* Array._cast(value, dimension): the depth check, then the items of       *)
(* `value` left to right, a list item cast one dimension deeper and any    *)
(* other item through the element field; the first exception ends it.      *)
(* The result is a plain list below the first dimension and a tagged       *)
(* arraylist at the first.                                                 *)
(***************************************************************************)
Array_cast(f, value, dimension) ==
    IF f.dimensions # 0 /\ dimension > f.dimensions
    THEN [f |-> f, err |-> DepthErr(dimension, f.dimensions), res |-> None]
    ELSE IF ~Iterable(value)
    THEN [f |-> f, err |-> NotIterableErr, res |-> None]
    ELSE LET r == CastItems(f, IterItems(value), 1, dimension + 1, <<>>) IN
         IF r.err # NoErr
         THEN [f |-> r.f, err |-> r.err, res |-> None]
         ELSE [f |-> r.f, err |-> NoErr,
               res |-> IF dimension > 1
                       THEN List(r.res)
                       ELSE Array_add_arr_type(r.f, r.res)]

\* The generator of Array._cast, consumed from item i on.
CastItems(f, xs, i, next_dimension, acc) ==
    IF i > Len(xs)
    THEN [f |-> f, err |-> NoErr, res |-> acc]
    ELSE LET r == IF ~IsList(xs[i])
                  THEN TypeCall(f, xs[i])
                  ELSE Array_cast(f, xs[i], next_dimension)
         IN  IF r.err # NoErr
             THEN [f |-> r.f, err |-> r.err, res |-> acc]
             ELSE CastItems(r.f, xs, i + 1, next_dimension,
                            Append(acc, r.res))

\* Array._select_cast(value, dimension)
Array_select_cast(f, value, dimension) ==
    IF ~IsListOrTuple(value)
    THEN TypeCall(f, value)
    ELSE Array_cast(f, value, dimension)

(***************************************************************************)
(* Array.__call__(value): the field after the call and the exception.      *)
(***************************************************************************)
Array__call__(f, value) ==
    IF value = Empty
    THEN [f |-> f, err |-> NoErr]
    ELSE IF value = None
    THEN [f |-> [f EXCEPT !.value = None], err |-> NoErr]
    ELSE LET r == Array_cast(f, value, 1) IN
         IF r.err # NoErr
         THEN [f |-> r.f, err |-> r.err]
         ELSE [f |-> [r.f EXCEPT !.value = r.res], err |-> NoErr]

(***************************************************************************)
(* Python's list: items of the stored list, indexes (negative ones count   *)
(* from the end), equality (a list equals an arraylist with equal items).  *)
(***************************************************************************)
HoldsList(f) == IsList(f.value)
StoredItems(f) == IterItems(f.value)
WithItems(f, xs) ==
    IF f.value.tag = "arraylist"
    THEN [f EXCEPT !.value.aitems = xs]
    ELSE [f EXCEPT !.value.items = xs]

NormIndex(n, i) == IF i < 0 THEN i + n ELSE i
IndexOk(n, i) == NormIndex(n, i) >= 0 /\ NormIndex(n, i) < n
\* list.insert clamps its index
ClampIndex(n, i) ==
    LET j == NormIndex(n, i) IN IF j < 0 THEN 0 ELSE IF j > n THEN n ELSE j

RemoveAt(xs, k) == [j \in 1..(Len(xs) - 1) |-> IF j < k THEN xs[j] ELSE xs[j + 1]]
InsertAt(xs, k, x) ==
    [j \in 1..(Len(xs) + 1) |->
        IF j < k THEN xs[j] ELSE IF j = k THEN x ELSE xs[j - 1]]
Reversed(xs) == [j \in 1..Len(xs) |-> xs[Len(xs) + 1 - j]]

RECURSIVE PyEq(_, _)
PyEq(x, y) ==
    IF IsList(x) /\ IsList(y)
    THEN /\ Len(IterItems(x)) = Len(IterItems(y))
         /\ \A k \in 1..Len(IterItems(x)) :
                PyEq(IterItems(x)[k], IterItems(y)[k])
    ELSE x = y

(***************************************************************************)
(* Array.__setitem__(index, value)                                         *)
(***************************************************************************)
Array__setitem__(f, index, value) ==
    LET f1 == Array_make_list(f)
        r == Array_select_cast(f1, value, 1)
        n == Len(StoredItems(r.f))
    IN  IF r.err # NoErr THEN [f |-> r.f, err |-> r.err]
        ELSE IF ~IndexOk(n, index) THEN [f |-> r.f, err |-> IndexErr]
        ELSE [f |-> WithItems(r.f, [StoredItems(r.f) EXCEPT
                                       ![NormIndex(n, index) + 1] = r.res]),
              err |-> NoErr]

(***************************************************************************)
(* Array.__delitem__(index)                                                *)
(***************************************************************************)
Array__delitem__(f, index) ==
    IF ~HoldsList(f) THEN [f |-> f, err |-> NoListErr]
    ELSE LET n == Len(StoredItems(f)) IN
         IF ~IndexOk(n, index) THEN [f |-> f, err |-> IndexErr]
         ELSE [f |-> WithItems(f, RemoveAt(StoredItems(f),
                                            NormIndex(n, index) + 1)),
               err |-> NoErr]

(* An Array.append that casts at the default dimension, 1. *)
Array_appendAtOne(f, value) ==
    LET f1 == Array_make_list(f)
        r == Array_select_cast(f1, value, 1)
    IN  IF r.err # NoErr THEN [f |-> r.f, err |-> r.err]
        ELSE [f |-> WithItems(r.f, Append(StoredItems(r.f), r.res)),
              err |-> NoErr]

(***************************************************************************)
(* Array.append(value)                                                     *)
(***************************************************************************)
Array_append(f, value) ==
    LET f1 == Array_make_list(f)
        r == Array_select_cast(f1, value, 2)
    IN  IF r.err # NoErr THEN [f |-> r.f, err |-> r.err]
        ELSE [f |-> WithItems(r.f, Append(StoredItems(r.f), r.res)),
              err |-> NoErr]

(***************************************************************************)
(* Array.pop(index)                                                        *)
(***************************************************************************)
Array_pop(f, index) ==
    IF ~HoldsList(f) THEN [f |-> f, err |-> NoAttrErr]
    ELSE LET n == Len(StoredItems(f)) IN
         IF ~IndexOk(n, index) THEN [f |-> f, err |-> IndexErr]
         ELSE [f |-> WithItems(f, RemoveAt(StoredItems(f),
                                            NormIndex(n, index) + 1)),
               err |-> NoErr]

(***************************************************************************)
(* Array.insert(index, value)                                              *)
(***************************************************************************)
Array_insert(f, index, value) ==
    LET f1 == Array_make_list(f)
        r == Array_select_cast(f1, value, 2)
        n == Len(StoredItems(r.f))
    IN  IF r.err # NoErr THEN [f |-> r.f, err |-> r.err]
        ELSE [f |-> WithItems(r.f, InsertAt(StoredItems(r.f),
                                             ClampIndex(n, index) + 1, r.res)),
              err |-> NoErr]

(***************************************************************************)
(* Array.remove(value): the first item equal to value goes.                *)
(***************************************************************************)
Array_remove(f, value) ==
    IF ~HoldsList(f) THEN [f |-> f, err |-> NoAttrErr]
    ELSE LET xs == StoredItems(f)
             hits == {k \in 1..Len(xs) : PyEq(xs[k], value)}
         IN  IF hits = {} THEN [f |-> f, err |-> RemoveErr]
             ELSE [f |-> WithItems(f, RemoveAt(xs,
                            CHOOSE k \in hits : \A j \in hits : k <= j)),
                   err |-> NoErr]

(***************************************************************************)
(* Array.extend(value): value is cast at the default dimension, 1, and     *)
(* the items of the result are added.                                      *)
(***************************************************************************)
Array_extend(f, value) ==
    LET f1 == Array_make_list(f)
        r == Array_select_cast(f1, value, 1)
    IN  IF r.err # NoErr THEN [f |-> r.f, err |-> r.err]
        ELSE IF ~Iterable(r.res) THEN [f |-> r.f, err |-> NotIterableErr]
        ELSE [f |-> WithItems(r.f, StoredItems(r.f) \o IterItems(r.res)),
              err |-> NoErr]

(***************************************************************************)
(* Array.reverse()                                                         *)
(***************************************************************************)
Array_reverse(f) ==
    IF ~HoldsList(f) THEN [f |-> f, err |-> NoAttrErr]
    ELSE [f |-> WithItems(f, Reversed(StoredItems(f))), err |-> NoErr]

(***************************************************************************)
(* Array.sort(): Python's `<` on the stored items.  Strings compare by     *)
(* code point; two lists compare on their first unequal items, else on     *)
(* length; any other pair raises TypeError.                                *)
(***************************************************************************)
StrRank(s) == CASE s = "a" -> 1 [] s = "b" -> 2 [] s = "z" -> 26 [] OTHER -> 0

Min2(a, b) == IF a < b THEN a ELSE b

RECURSIVE PyCmp(_, _)
PyCmp(x, y) ==
    IF x.tag = "str" /\ y.tag = "str"
    THEN IF StrRank(x.s) < StrRank(y.s) THEN "lt"
         ELSE IF StrRank(x.s) > StrRank(y.s) THEN "gt" ELSE "eq"
    ELSE IF IsList(x) /\ IsList(y)
    THEN LET xs == IterItems(x)
             ys == IterItems(y)
             diff == {k \in 1..Min2(Len(xs), Len(ys)) : ~PyEq(xs[k], ys[k])}
         IN  IF diff = {}
             THEN IF Len(xs) < Len(ys) THEN "lt"
                  ELSE IF Len(xs) > Len(ys) THEN "gt" ELSE "eq"
             ELSE LET k == CHOOSE k \in diff : \A j \in diff : k <= j
                  IN  PyCmp(xs[k], ys[k])
    ELSE "err"

\* x goes before the first item of the sorted run that it is less than.
SortedInsert(run, x) ==
    LET later == {k \in 1..Len(run) : PyCmp(x, run[k]) = "lt"}
    IN  IF later = {} THEN Append(run, x)
        ELSE InsertAt(run, CHOOSE k \in later : \A j \in later : k <= j, x)

RECURSIVE StableSort(_, _, _)
StableSort(xs, i, run) ==
    IF i > Len(xs) THEN run
    ELSE StableSort(xs, i + 1, SortedInsert(run, xs[i]))

ItemOrders(xs) ==
    {[j \in 1..Len(xs) |-> xs[p[j]]] :
        p \in {q \in [1..Len(xs) -> 1..Len(xs)] :
                  \A a, b \in 1..Len(xs) : a # b => q[a] # q[b]}}

\* The outcomes of Array.sort(): sorted, or TypeError at the first pair that
\* does not compare, the list left in whatever order the sort had reached.
Array_sort(f) ==
    IF ~HoldsList(f) THEN {[f |-> f, err |-> NoAttrErr]}
    ELSE LET xs == StoredItems(f) IN
         IF \A a, b \in 1..Len(xs) : a # b => PyCmp(xs[a], xs[b]) # "err"
         THEN {[f |-> WithItems(f, StableSort(xs, 1, <<>>)), err |-> NoErr]}
         ELSE {[f |-> WithItems(f, ys), err |-> CompareErr] :
                  ys \in ItemOrders(xs)}

(***************************************************************************)
(* The list-nesting depth of a value: 0 for anything that is not a list.   *)
(***************************************************************************)
Max2(a, b) == IF a > b THEN a ELSE b

RECURSIVE MaxDepthFrom(_, _)
RECURSIVE Depth(_)
Depth(x) ==
    IF IsList(x) THEN 1 + MaxDepthFrom(IterItems(x), 1) ELSE 0
MaxDepthFrom(xs, i) ==
    IF i > Len(xs) THEN 0
    ELSE Max2(Depth(xs[i]), MaxDepthFrom(xs, i + 1))

(***************************************************************************)
(* __call__ of the other field classes.  A normalizer of a library         *)
(* (netaddr, arrow, base64, phonenumbers, slugify, the hasher) is a tagged *)
(* wrapper around what it was given, so that a stored value shows whether  *)
(* the normalizer ran.  Each __call__ gives the field after the call and   *)
(* the exception raised.                                                   *)
(***************************************************************************)
Normalized(by, value) == [tag |-> by, of |-> value]

ArrowNoneErr == [cls |-> "TypeError", what |-> "arrow.get(None)"]
MissingArgErr ==
    [cls |-> "TypeError", what |-> "missing 1 required positional argument"]

\* Field.__init__ of a field with no configuration of its own
Field__init__ == [value |-> Empty]

\* IP.request_ip with no request bound to the field
IP_request_ip == None

\* IP.current, the argument that asks for the address of the request
IP_current == Num(0 - 1)

\* IP.__call__
IP__call__(f, value) ==
    IF value # Empty
    THEN LET v == IF value = IP_current THEN IP_request_ip ELSE value
         IN  [f |-> [f EXCEPT !.value = IF v # None
                                        THEN Normalized("IPAddress", v)
                                        ELSE v],
              err |-> NoErr]
    ELSE [f |-> f, err |-> NoErr]

\* Cidr.__call__
Cidr__call__(f, value) ==
    IF value # Empty
    THEN [f |-> [f EXCEPT !.value = IF value # None
                                     THEN Normalized("IPNetwork", value)
                                     ELSE value],
          err |-> NoErr]
    ELSE [f |-> f, err |-> NoErr]

\* MacAddress.__call__
MacAddress__call__(f, value) ==
    IF value # Empty
    THEN [f |-> [f EXCEPT !.value = IF value # None
                                     THEN Normalized("EUI", value)
                                     ELSE value],
          err |-> NoErr]
    ELSE [f |-> f, err |-> NoErr]

\* Binary.__call__
Binary__call__(f, value) ==
    IF value # Empty
    THEN [f |-> [f EXCEPT !.value = IF value # None
                                     THEN Normalized("bloombytes", value)
                                     ELSE value],
          err |-> NoErr]
    ELSE [f |-> f, err |-> NoErr]

\* Slug.__call__
Slug__call__(f, value) ==
    IF value # Empty
    THEN [f |-> [f EXCEPT !.value = IF value # None
                                     THEN Normalized("slugify", value)
                                     ELSE None],
          err |-> NoErr]
    ELSE [f |-> f, err |-> NoErr]

\* Password.__init__
Password__init__ == [value |-> Empty, validation_value |-> Empty]

\* HashIdentifier.is_hash: a hash is what the hasher made
Hasher_is_hash(value) == value # None /\ value.tag = "hash"

\* Password.__call__
Password__call__(f, value) ==
    IF value # Empty
    THEN IF ~Hasher_is_hash(value) /\ value # None
         THEN [f |-> [f EXCEPT !.validation_value = value,
                               !.value = Normalized("hash", value)],
               err |-> NoErr]
         ELSE [f |-> [f EXCEPT !.validation_value = None, !.value = value],
               err |-> NoErr]
    ELSE [f |-> f, err |-> NoErr]

\* Key.__call__
Key__call__(f, value) ==
    IF value # Empty
    THEN [f |-> [f EXCEPT !.value = IF value # None
                                     THEN Normalized("str", value)
                                     ELSE value],
          err |-> NoErr]
    ELSE [f |-> f, err |-> NoErr]

\* Email.__call__
Email__call__(f, value) ==
    IF value # Empty
    THEN [f |-> [f EXCEPT !.value = IF value # None
                                     THEN Normalized("lower", value)
                                     ELSE value],
          err |-> NoErr]
    ELSE [f |-> f, err |-> NoErr]

\* Duration.__call__: float(None) raises the TypeError the method catches,
\* and None is stored as it came
Duration__call__(f, value) ==
    IF value # Empty
    THEN [f |-> [f EXCEPT !.value = IF value # None
                                     THEN Normalized("_DurationDelta", value)
                                     ELSE value],
          err |-> NoErr]
    ELSE [f |-> f, err |-> NoErr]

\* PhoneNumber.__call__ once it has its argument
PhoneNumber__call__(f, value) ==
    IF value # Empty
    THEN [f |-> [f EXCEPT !.value = IF value # None
                                     THEN Normalized("phonenumbers", value)
                                     ELSE value],
          err |-> NoErr]
    ELSE [f |-> f, err |-> NoErr]

\* Time.__init__
Time__init__ == [value |-> Empty, _arrow |-> None]

\* _get_arrow(typ, value): arrow.get(None) is the current time in one
\* release of arrow and a TypeError in another
_get_arrow(value) ==
    IF value = None
    THEN {[arrow |-> Normalized("Arrow", Str("utcnow")), err |-> NoErr],
          [arrow |-> None, err |-> ArrowNoneErr]}
    ELSE {[arrow |-> Normalized("Arrow", value), err |-> NoErr]}

\* Time.__call__, which Date, TimeTZ, Timestamp and TimestampTZ share: the
\* outcomes of the call
Time__call__(f, value) ==
    IF value # Empty
    THEN IF value # None /\ value.tag = "Arrow"
         THEN {[f |-> [f EXCEPT !._arrow = value, !.value = value],
                err |-> NoErr]}
         ELSE {IF g.err = NoErr
               THEN [f |-> [f EXCEPT !._arrow = g.arrow, !.value = g.arrow],
                     err |-> NoErr]
               ELSE [f |-> f, err |-> g.err] : g \in _get_arrow(value)}
    ELSE {[f |-> f, err |-> NoErr]}

(***************************************************************************)
(* Codecs.  to_db encodes a value as what the driver sends, to_python      *)
(* decodes what the driver read.  Bytes are sequences of numbers 0..255;   *)
(* base64 is computed on them as the base64 module computes it.            *)
(***************************************************************************)
\* the base64 alphabet, as ASCII codes: A-Z a-z 0-9 + /
B64Alphabet ==
    [k \in 1..64 |-> CASE k <= 26 -> 64 + k
                       [] k > 26 /\ k <= 52 -> 70 + k
                       [] k > 52 /\ k <= 62 -> k - 5
                       [] k = 63 -> 43
                       [] k = 64 -> 47]
B64Pad == 61

B64Char(sextet) == B64Alphabet[sextet + 1]
IsB64Char(c) == \E k \in 1..64 : B64Alphabet[k] = c
B64Index(c) == (CHOOSE k \in 1..64 : B64Alphabet[k] = c) - 1

\* base64.b64encode(bytes)
RECURSIVE b64encode(_)
b64encode(bs) ==
    CASE Len(bs) = 0 -> <<>>
      [] Len(bs) = 1 ->
            <<B64Char(bs[1] \div 4), B64Char((bs[1] % 4) * 16),
              B64Pad, B64Pad>>
      [] Len(bs) = 2 ->
            LET n == (bs[1] * 256 + bs[2]) * 4 IN
            <<B64Char(n \div 4096), B64Char((n \div 64) % 64),
              B64Char(n % 64), B64Pad>>
      [] OTHER ->
            LET n == bs[1] * 65536 + bs[2] * 256 + bs[3] IN
            <<B64Char(n \div 262144), B64Char((n \div 4096) % 64),
              B64Char((n \div 64) % 64), B64Char(n % 64)>>
                \o b64encode(SubSeq(bs, 4, Len(bs)))

\* the bytes that the sextets of a quad, whole or cut short by padding, hold
QuadBytes(quad) ==
    CASE Len(quad) = 4 ->
            LET n == quad[1] * 262144 + quad[2] * 4096 + quad[3] * 64 + quad[4]
            IN  <<n \div 65536, (n \div 256) % 256, n % 256>>
      [] Len(quad) = 3 ->
            LET n == quad[1] * 4096 + quad[2] * 64 + quad[3]
            IN  <<n \div 1024, (n \div 4) % 256>>
      [] Len(quad) = 2 -> <<(quad[1] * 64 + quad[2]) \div 16>>
      [] OTHER -> <<>>

PaddingErr == [cls |-> "binascii.Error", what |-> "Incorrect padding"]

\* binascii.a2b_base64(data) as b64decode calls it, not strict: a character
\* outside the alphabet is skipped, padding that completes a quad ends the
\* data, and a quad left open at the end is an error
RECURSIVE a2b_base64(_, _, _, _, _)
a2b_base64(data, i, quad, pads, out) ==
    IF i > Len(data)
    THEN IF quad = <<>> THEN [bytes |-> out, err |-> NoErr]
         ELSE [bytes |-> <<>>, err |-> PaddingErr]
    ELSE IF data[i] = B64Pad
    THEN IF Len(quad) >= 2 /\ Len(quad) + pads + 1 >= 4
         THEN [bytes |-> out \o QuadBytes(quad), err |-> NoErr]
         ELSE a2b_base64(data, i + 1, quad, pads + 1, out)
    ELSE IF ~IsB64Char(data[i])
    THEN a2b_base64(data, i + 1, quad, pads, out)
    ELSE LET q == Append(quad, B64Index(data[i])) IN
         IF Len(q) = 4
         THEN a2b_base64(data, i + 1, <<>>, 0, out \o QuadBytes(q))
         ELSE a2b_base64(data, i + 1, q, 0, out)

\* base64.b64decode(data)
b64decode(data) == a2b_base64(data, 1, <<>>, 0, <<>>)

\* psycopg2.Binary(bytes), the bytea the driver sends, and psycopg2.BINARY,
\* the bytes of the bytea it read
Bytea(bs) == [tag |-> "bytea", bytes |-> bs]

\* A bloombytes.to_db that sends the bytes as they are.
bloombytes_to_dbPlain(value) == Bytea(value)

\* bloombytes.to_db
bloombytes_to_db(value) == Bytea(b64encode(value))

\* A Binary.to_python with nothing to fall back on.
Binary_to_pythonNoFallback(value) == b64decode(value.bytes).bytes

\* Binary.to_python
Binary_to_python(value) ==
    LET r == b64decode(value.bytes) IN
    IF r.err = NoErr THEN r.bytes ELSE value.bytes

\* adapt(text).getquoted(): the text as a quoted SQL string
Quoted(text) == [tag |-> "quoted", text |-> text]
\* AsIs("<literal>::<cast>") and AsIs("B<literal>")
AsIs(prefix, literal, cast) ==
    [tag |-> "asis", prefix |-> prefix, literal |-> literal, cast |-> cast]

\* Bit.to_db
Bit_to_db(value) == AsIs("B", Quoted(value.bin), "")

\* Bit.to_python
Bit_to_python(value) == IF value # None THEN BitArray(value.s) ELSE None

\* netaddr's values: an address is its octets, a network an address and a
\* prefix length, a MAC address its six octets.  str() writes them in one
\* form, the constructors read every form.
IPAddress(octets) == [tag |-> "IPAddress", octets |-> octets]
IPNetwork(octets, prefixlen) ==
    [tag |-> "IPNetwork", octets |-> octets, prefixlen |-> prefixlen]
EUI(octets) == [tag |-> "EUI", octets |-> octets]

NetText(form, octets, prefixlen) ==
    [form |-> form, octets |-> octets, prefixlen |-> prefixlen]

\* str(value)
NetStr(value) ==
    CASE value.tag = "IPAddress" -> NetText("dotted", value.octets, 0 - 1)
      [] value.tag = "IPNetwork" ->
            NetText("dotted", value.octets, value.prefixlen)
      [] value.tag = "EUI" -> NetText("dash-upper", value.octets, 0 - 1)

\* IP.to_db, Cidr.to_db, MacAddress.to_db
IP_to_db(value) == AsIs("", Quoted(NetStr(value)), "inet")
Cidr_to_db(value) == AsIs("", Quoted(NetStr(value)), "cidr")
MacAddress_to_db(value) == AsIs("", Quoted(NetStr(value)), "macaddr")

\* IP.to_python, Cidr.to_python, MacAddress.to_python
IP_to_python(value) ==
    IF value = None THEN value ELSE IPAddress(value.octets)
Cidr_to_python(value) ==
    IF value = None THEN value
    ELSE IPNetwork(value.octets,
                   IF value.prefixlen < 0 THEN 32 ELSE value.prefixlen)
MacAddress_to_python(value) ==
    IF value = None THEN value ELSE EUI(value.octets)

\* psycopg2's List(value).getquoted(): ARRAY[...] of the adapted items, and
\* '{}' for no items
PgList(items) == [tag |-> "pglist", items |-> items]

\* items of an arraylist, nested lists as sequences
RECURSIVE PlainItems(_)
PlainItems(x) ==
    IF x.tag = "arraylist"
    THEN [k \in 1..Len(x.aitems) |-> PlainItems(x.aitems[k])]
    ELSE IF x.tag = "list"
    THEN [k \in 1..Len(x.items) |-> PlainItems(x.items[k])]
    ELSE x

\* _ListAdapter(value).getquoted(): the literal, and the type it is cast to
\* (None when it is sent with no cast)
ListAdapter_getquoted(value) ==
    IF Len(value.aitems) = 0 \/ value.cargotype = Str("")
    THEN [literal |-> PgList(PlainItems(value)), cast |-> None]
    ELSE [literal |-> PgList(PlainItems(value)),
          cast |-> [type |-> value.cargotype, suffix |-> "[]"]]

\* The database: what a column of the type gives back for what it was
\* sent.  A cidr with bits set right of the mask is refused.
MaskedBits(k, prefixlen) == Min2(8, Max2(0, prefixlen - 8 * (k - 1)))

HostBits(octets, prefixlen) ==
    {k \in 1..4 : octets[k] % (2 ^ (8 - MaskedBits(k, prefixlen))) # 0}

PgRefused == [tag |-> "refused"]

PgOutput(wire) ==
    CASE wire.tag = "bytea" -> wire
      [] wire.tag = "asis" /\ wire.prefix = "B" -> Str(wire.literal.text)
      [] wire.tag = "asis" /\ wire.cast = "inet" -> wire.literal.text
      [] wire.tag = "asis" /\ wire.cast = "cidr" ->
            IF HostBits(wire.literal.text.octets,
                        wire.literal.text.prefixlen) # {}
            THEN PgRefused
            ELSE wire.literal.text
      [] wire.tag = "asis" /\ wire.cast = "macaddr" ->
            NetText("colon-lower", wire.literal.text.octets, 0 - 1)

(***************************************************************************)
(* Objects.  A field and a list are objects with an identity: the heap is  *)
(* the sequence of the objects made so far, a reference the position of    *)
(* one.  An Array object holds a reference to its element field, and a     *)
(* reference to its list when it has one.                                  *)
(***************************************************************************)
Ref(n) == [tag |-> "ref", n |-> n]
IsRef(x) == x.tag = "ref"
Object(cls, f) == [cls |-> cls, f |-> f]
Alloc(h, obj) == [heap |-> Append(h, obj), ref |-> Ref(Len(h) + 1)]
At(h, r) == h[r.n].f

\* the field at r with what it refers to in place of the references
Load(h, r) ==
    IF h[r.n].cls # "Array" THEN At(h, r)
    ELSE [At(h, r) EXCEPT !.type = At(h, @),
                          !.value = IF IsRef(@) THEN At(h, @) ELSE @]

\* type.copy() of the element field at r: a new object
OneOf_copyAt(h, r, preserve) ==
    Alloc(h, Object("OneOf", OneOf_copy(At(h, r), preserve)))

\* Array.__init__: self.type is a copy of the element field given
Array__init__At(h, type, dimensions, minlen, maxlen) ==
    LET t == OneOf_copyAt(h, type, FALSE)
    IN  Alloc(t.heap,
              Object("Array",
                     [Array__init__(At(h, type), dimensions, minlen, maxlen)
                        EXCEPT !.type = t.ref]))

(* An Array.clear_copy that leaves dimensions to the default. *)
Array_clear_copyNoDimensions(h, r) ==
    LET a == At(h, r)
        t == OneOf_copyAt(h, a.type, FALSE)
    IN  Array__init__At(t.heap, t.ref, 1, a.minlen, a.maxlen)

\* Array.clear_copy: a copy of the element field, and dimensions, minlen
\* and maxlen, go to the constructor
Array_clear_copy(h, r) ==
    LET a == At(h, r)
        t == OneOf_copyAt(h, a.type, FALSE)
    IN  Array__init__At(t.heap, t.ref, a.dimensions, a.minlen, a.maxlen)

\* Field.copy of an Array: the list, when preserved, is a list of its own
Array_copy(h, r, preserve) ==
    LET c == Array_clear_copy(h, r)
        value == At(h, r).value
    IN  IF ~preserve THEN c
        ELSE IF ~IsRef(value)
        THEN [c EXCEPT !.heap[c.ref.n].f.value = value]
        ELSE LET l == Alloc(c.heap, Object("list", At(h, value)))
             IN  [heap |-> [l.heap EXCEPT ![c.ref.n].f.value = l.ref],
                  ref |-> c.ref]

\* copy() of the field at r, whatever its class
CopyAt(h, r, preserve) ==
    CASE h[r.n].cls = "Array" -> Array_copy(h, r, preserve)
      [] h[r.n].cls = "OneOf" -> OneOf_copyAt(h, r, preserve)
      [] OTHER -> Alloc(h, Object("Bit", Bit_copy(At(h, r), preserve)))

(***************************************************************************)
(* An operation on the Array at r left the field as g.  The element field  *)
(* is the same object, changed.  A list the operation changed in place is  *)
(* the same object, changed; a list the operation made is a new object.    *)
(***************************************************************************)
StoreArray(h, r, g, inPlace) ==
    LET a == At(h, r)
        h1 == [h EXCEPT ![a.type.n].f = g.type]
    IN  IF ~IsList(g.value)
        THEN [h1 EXCEPT ![r.n].f.value = g.value]
        ELSE IF IsRef(a.value) /\ inPlace
        THEN [h1 EXCEPT ![a.value.n].f = g.value]
        ELSE LET l == Alloc(h1, Object("list", g.value))
             IN  [l.heap EXCEPT ![r.n].f.value = l.ref]

\* An operation on the OneOf or Bit field at r left the field as g.
StoreField(h, r, g) == [h EXCEPT ![r.n].f = g]

(***************************************************************************)
(* The expression tree and its compiler.  An operand is a literal (any     *)
(* plain value), a safe() fragment, a bound Field, or a node: Expression,  *)
(* Function, Clause or Case.  Compiled text is a sequence of tokens; "%s"  *)
(* is the positional placeholder.                                          *)
(***************************************************************************)
Safe(text) == [tag |-> "safe", text |-> text]
Field(table, name) == [tag |-> "field", ftable |-> table, fname |-> name]
Expression(left, operator, right, alias, group) ==
    [tag |-> "expression", left |-> left, operator |-> operator,
     right |-> right, alias |-> alias, group |-> group]
NoArg == [tag |-> "noarg"]
Function(func, arg, alias) ==
    [tag |-> "function", func |-> func, arg |-> arg, alias |-> alias]
Clause(keyword, children) ==
    [tag |-> "clause", keyword |-> keyword, children |-> children]
CaseNode(whens, el, alias, use_field_name) ==
    [tag |-> "case", whens |-> whens, el |-> el, alias |-> alias,
     use_field_name |-> use_field_name]

NodeTags == {"expression", "function", "clause", "case"}
IsLiteral(x) == x.tag \notin NodeTags \cup {"safe", "field", "noarg"}

Placeholder == "%s"

Compiled(string, params) == [string |-> string, params |-> params, err |-> FALSE]
BuildError == [string |-> <<>>, params |-> <<>>, err |-> TRUE]
Join(a, b) ==
    [string |-> a.string \o b.string, params |-> a.params \o b.params,
     err |-> a.err \/ b.err]
Word(w) == Compiled(<<w>>, <<>>)
\* the trailing alias, rendered only where the node is not an operand
WithAlias(c, alias, nested) ==
    IF alias = None \/ nested THEN c ELSE Join(c, Word(alias.s))

\* A literal operand: one placeholder, one parameter.
CompileLiteral(x) == Compiled(<<Placeholder>>, <<x>>)

\* A safe() operand: its text, no parameter.
CompileSafe(x) == Compiled(<<x.text>>, <<>>)

\* A bound Field: table.column, or column in bare-name mode.
CompileField(x, bare) ==
    IF bare THEN Word(x.fname) ELSE Compiled(<<x.ftable, ".", x.fname>>, <<>>)

RECURSIVE Compile(_, _, _)
RECURSIVE CompileAll(_, _, _)
RECURSIVE CompileWhens(_, _, _, _)

\* The children of a Clause, left to right.
CompileAll(xs, i, bare) ==
    IF i > Len(xs) THEN Compiled(<<>>, <<>>)
    ELSE Join(Compile(xs[i], bare, TRUE), CompileAll(xs, i + 1, bare))

\* WHEN c THEN r for each pair, in order; conditions in bare-name mode when
\* the Case asks for it.
CompileWhens(whens, i, cbare, bare) ==
    IF i > Len(whens) THEN Compiled(<<>>, <<>>)
    ELSE Join(Join(Join(Word("WHEN"), Compile(whens[i][1], cbare, TRUE)),
                   Join(Word("THEN"), Compile(whens[i][2], bare, TRUE))),
              CompileWhens(whens, i + 1, cbare, bare))

(***************************************************************************)
(* Compile(x, bare, nested): the text and parameters of operand x, with    *)
(* field names bare or qualified, x standing alone or as an operand.       *)
(***************************************************************************)
Compile(x, bare, nested) ==
    CASE x.tag = "safe" -> CompileSafe(x)
      [] x.tag = "field" -> CompileField(x, bare)
      [] x.tag = "expression" ->
            LET body == Join(Compile(x.left, bare, TRUE),
                             Join(Word(x.operator),
                                  Compile(x.right, bare, TRUE)))
                grouped == IF x.group
                           THEN Join(Word("("), Join(body, Word(")")))
                           ELSE body
            IN  WithAlias(grouped, x.alias, nested)
      [] x.tag = "function" ->
            WithAlias(
                Join(Compiled(<<x.func, "(">>, <<>>),
                     Join(IF x.arg = NoArg THEN Compiled(<<>>, <<>>)
                          ELSE Compile(x.arg, bare, TRUE),
                          Word(")"))),
                x.alias, nested)
      [] x.tag = "clause" ->
            Join(Word(x.keyword), CompileAll(x.children, 1, bare))
      [] x.tag = "case" ->
            IF x.whens = <<>> /\ x.el = None THEN BuildError
            ELSE WithAlias(
                    Join(Word("CASE"),
                         Join(CompileWhens(x.whens, 1, x.use_field_name \/ bare,
                                      bare),
                              Join(IF x.el = None THEN Compiled(<<>>, <<>>)
                                   ELSE Join(Word("ELSE"),
                                             Compile(x.el, bare, TRUE)),
                                   Word("END")))),
                    x.alias, nested)
      [] OTHER -> CompileLiteral(x)

\* node.string and node.params
StringOf(x) == Compile(x, FALSE, FALSE).string
ParamsOf(x) == Compile(x, FALSE, FALSE).params

(***************************************************************************)
(* string % params: each placeholder takes the next parameter's text.      *)
(***************************************************************************)
DigitText(n) ==
    CASE n = 0 -> "0" [] n = 1 -> "1" [] n = 2 -> "2" [] n = 3 -> "3"
      [] n = 4 -> "4" [] n = 5 -> "5" [] n = 6 -> "6" [] n = 7 -> "7"
      [] n = 8 -> "8" [] OTHER -> "9"

TextOf(v) ==
    CASE v.tag = "str" -> v.s
      [] v.tag = "int" -> DigitText(v.n)
      [] OTHER -> "None"

RECURSIVE Interpolate(_, _, _, _)
Interpolate(string, params, i, k) ==
    IF i > Len(string) THEN <<>>
    ELSE IF string[i] = Placeholder
    THEN <<IF k <= Len(params) THEN TextOf(params[k]) ELSE "<missing>">>
            \o Interpolate(string, params, i + 1, k + 1)
    ELSE <<string[i]>> \o Interpolate(string, params, i + 1, k)

Mogrified(c) == Interpolate(c.string, c.params, 1, 1)

\* how many times token w occurs in a text
Occurrences(string, w) == Cardinality({i \in 1..Len(string) : string[i] = w})

(***************************************************************************)
(* The Case builder: Case(args.., el=, alias=, use_field_name=), with      *)
(* when(args..) and el(e); args alternate condition, result.               *)
(***************************************************************************)
RECURSIVE Pairs(_)
Pairs(args) ==
    IF Len(args) < 2 THEN <<>>
    ELSE <<<<args[1], args[2]>>>> \o Pairs(SubSeq(args, 3, Len(args)))

Case__init__(args, el, alias, use_field_name) ==
    CaseNode(Pairs(args), el, alias, use_field_name)

(* A when that puts the new branches in front. *)
Case_whenInFront(c, args) == [c EXCEPT !.whens = Pairs(args) \o @]

\* Case.when: the pairs are appended in call order
Case_when(c, args) == [c EXCEPT !.whens = @ \o Pairs(args)]

(* An el that keeps the else it already has. *)
Case_elKeepsFirst(c, e) == IF c.el = None THEN [c EXCEPT !.el = e] ELSE c

\* Case.el: the last call wins
Case_el(c, e) == [c EXCEPT !.el = e]

(***************************************************************************)
(* Set operations: a Select combined with further Selects by UNION,        *)
(* INTERSECT or EXCEPT, each bare, ALL or DISTINCT.  Combining a           *)
(* SetOperations again extends its list of operations.                     *)
(***************************************************************************)
Select(string, params) == [tag |-> "select", string |-> string, params |-> params]
SetOperations(first, rest) ==
    [tag |-> "setoperations", first |-> first, rest |-> rest]

\* the keyword of each combining operator of a query
Keyword(operator) ==
    CASE operator = "&" -> <<"UNION">>
      [] operator = "+" -> <<"UNION", "ALL">>
      [] operator = "-" -> <<"UNION", "DISTINCT">>
      [] operator = ">" -> <<"INTERSECT">>
      [] operator = ">=" -> <<"INTERSECT", "ALL">>
      [] operator = ">>" -> <<"INTERSECT", "DISTINCT">>
      [] operator = "<" -> <<"EXCEPT">>
      [] operator = "<=" -> <<"EXCEPT", "ALL">>
      [] OTHER -> <<"EXCEPT", "DISTINCT">>

(* A combination that writes the keyword before the left operand too. *)
CombineKeywordFirst(q, operator, other) ==
    SetOperations(Select(<<>>, <<>>),
                  <<[keyword |-> Keyword(operator), query |-> q],
                    [keyword |-> Keyword(operator), query |-> other]>>)

\* q <operator> other: a SetOperations of q's operations and then other
Combine(q, operator, other) ==
    IF q.tag = "setoperations"
    THEN SetOperations(q.first,
                       Append(q.rest, [keyword |-> Keyword(operator),
                                       query |-> other]))
    ELSE SetOperations(q, <<[keyword |-> Keyword(operator),
                             query |-> other]>>)

RECURSIVE QueryOf(_)
RECURSIVE QueryOfRest(_, _)
QueryOfRest(rest, i) ==
    IF i > Len(rest) THEN Compiled(<<>>, <<>>)
    ELSE Join(Join(Compiled(rest[i].keyword, <<>>), QueryOf(rest[i].query)),
              QueryOfRest(rest, i + 1))
\* the text and the parameters of a query
QueryOf(q) ==
    IF q.tag = "select" THEN Compiled(q.string, q.params)
    ELSE Join(QueryOf(q.first), QueryOfRest(q.rest, 1))

\* str.count(sub): the occurrences of a run of tokens in a text
IsAt(string, sub, i) ==
    /\ i + Len(sub) - 1 <= Len(string)
    /\ \A j \in 1..Len(sub) : string[i + j - 1] = sub[j]
Count(string, sub) == Cardinality({i \in 1..Len(string) : IsAt(string, sub, i)})

(***************************************************************************)
(* BaseCreator (cargo/builder/utils.py): a builder with a name and a       *)
(* query.                                                                  *)
(***************************************************************************)
Creator(name, query) == [tag |-> "creator", _name |-> name, query |-> query]

(* A _cast_safe that leaves a str as it is. *)
BaseCreator_cast_safeNoWrap(val) ==
    IF val.tag = "creator" THEN val.query ELSE val

\* BaseCreator._cast_safe
BaseCreator_cast_safe(val) ==
    IF val.tag = "str" THEN Safe(val.s)
    ELSE IF val.tag = "creator" THEN val.query
    ELSE val

\* BaseCreator.name
BaseCreator_name(bc) == BaseCreator_cast_safe(bc._name)
\* BaseCreator.string
BaseCreator_string(bc) == StringOf(bc.query)
(* A params that loses the parameters of the query. *)
BaseCreator_paramsDropped(bc) == <<>>

\* BaseCreator.params
BaseCreator_params(bc) == ParamsOf(bc.query)

(***************************************************************************)
(* The operands of a tree, and the tree with every literal written out.    *)
(***************************************************************************)
RECURSIVE Subtrees(_)
RECURSIVE SubtreesOfAll(_, _)
RECURSIVE SubtreesOfWhens(_, _)
SubtreesOfAll(xs, i) ==
    IF i > Len(xs) THEN {} ELSE Subtrees(xs[i]) \cup SubtreesOfAll(xs, i + 1)
SubtreesOfWhens(whens, i) ==
    IF i > Len(whens) THEN {}
    ELSE Subtrees(whens[i][1]) \cup Subtrees(whens[i][2])
            \cup SubtreesOfWhens(whens, i + 1)
Subtrees(x) ==
    {x} \cup
    CASE x.tag = "expression" -> Subtrees(x.left) \cup Subtrees(x.right)
      [] x.tag = "function" -> IF x.arg = NoArg THEN {} ELSE Subtrees(x.arg)
      [] x.tag = "clause" -> SubtreesOfAll(x.children, 1)
      [] x.tag = "case" ->
            SubtreesOfWhens(x.whens, 1)
                \cup (IF x.el = None THEN {} ELSE Subtrees(x.el))
      [] OTHER -> {}

RECURSIVE Inlined(_)
Inlined(x) ==
    CASE x.tag = "expression" ->
            [x EXCEPT !.left = Inlined(x.left), !.right = Inlined(x.right)]
      [] x.tag = "function" ->
            IF x.arg = NoArg THEN x ELSE [x EXCEPT !.arg = Inlined(x.arg)]
      [] x.tag = "clause" ->
            [x EXCEPT !.children =
                [i \in DOMAIN x.children |-> Inlined(x.children[i])]]
      [] x.tag = "case" ->
            [x EXCEPT !.whens =
                        [i \in DOMAIN x.whens |->
                            <<Inlined(x.whens[i][1]), Inlined(x.whens[i][2])>>],
                      !.el = IF x.el = None THEN None ELSE Inlined(x.el)]
      [] x.tag \in {"safe", "field"} -> x
      [] OTHER -> Safe(TextOf(x))

(***************************************************************************)
(* The OneOf state machine: a field built with some `types`, then called   *)
(* with any value.                                                         *)
(***************************************************************************)
EnumNames == {"cat", "dog", "mouse"}
OtherNames == {"goat"}

TypesTuples ==
    UNION {[1..n -> EnumNames] : n \in 1..MaxTypes}

OneOfArgs ==
    {Str(s) : s \in EnumNames \cup OtherNames}
        \cup {None, Empty, List(<<Str("cat")>>), Tuple(<<Str("cat")>>)}

NoCall == [op |-> "init", arg |-> Empty, err |-> NoErr, ret |-> Empty,
           before |-> Empty]

\* the fields a OneOf machine starts from
OneOfFields == {OneOf__init__(types, None) : types \in TypesTuples}

OneOfCall(value) ==
    LET r == OneOf__call__(oneof, value) IN
    /\ UNCHANGED <<arrVars, astVars, csVars, sqVars, cwVars, fdVars, rgVars, thVars, cdcVars, tnVars, vlVars, pgVars, plVars, hsVars, tgVars>>
    /\ oneof' = r.f
    /\ olast' = [op |-> "call", arg |-> value, err |-> r.err, ret |-> r.ret,
                 before |-> oneof.value]

NextOneOf ==
    \E value \in OneOfArgs : OneOfCall(value)

(***************************************************************************)
(* C1: calling a OneOf field with a value that is neither None nor a       *)
(* member of `types` raises a ValueError naming the value and the whole    *)
(* `types` tuple (and stores nothing); calling it with None raises         *)
(* nothing and stores None, whatever `types` holds.                        *)
(***************************************************************************)
C1_EnumMembership ==
    olast.op = "call" /\ olast.arg # Empty =>
        /\ (/\ olast.arg # None
            /\ \A i \in DOMAIN oneof.types : olast.arg # Str(oneof.types[i])) =>
              /\ olast.err.cls = "ValueError"
              /\ olast.err.value = olast.arg
              /\ olast.err.types = oneof.types
              /\ oneof.value = olast.before
        /\ olast.arg = None =>
              /\ olast.err = NoErr
              /\ oneof.value = None
              /\ olast.ret = None

C1_Witness ==
    /\ olast.op = "call"
    /\ olast.arg = Str("goat")
    /\ oneof.types = <<"cat", "dog">>
    /\ olast.err = NotInErr(Str("goat"), <<"cat", "dog">>)
    /\ olast.before = None

(***************************************************************************)
(* The Array state machine: an Array of OneOf('a', 'b') with dimensions    *)
(* 1..MaxDim, driven through every operation of the class.  The values     *)
(* given are leaves, leaves wrapped in up to MaxDim single-item lists,     *)
(* and lists of those.                                                     *)
(***************************************************************************)
ElementField == OneOf__init__(<<"a", "b">>, None)

Leaves == {Str("a"), Str("z")}

RECURSIVE Wrapped(_, _)
Wrapped(d, x) == IF d = 0 THEN x ELSE List(<<Wrapped(d - 1, x)>>)

\* one item: a leaf, or a leaf or nothing under 1..MaxDim lists
Items ==
    Leaves
      \cup {Wrapped(d, x) : d \in 1..MaxDim, x \in Leaves}
      \cup {Wrapped(d - 1, List(<<>>)) : d \in 1..MaxDim}

ListsOf(S) == UNION {{List(xs) : xs \in [1..n -> S]} : n \in 0..MaxLen}

\* what a whole-array assignment is given
CallArgs == ListsOf(Items) \cup {None, Empty, Str("a"), Str("z")}

\* what append, insert, extend, index set and remove are given
ItemArgs ==
    Items \cup ListsOf(Leaves) \cup {None}
      \cup {Tuple(<<x>>) : x \in Leaves \cup {List(<<Str("a")>>)}}

Indexes == (0 - 1)..MaxLen

\* the leaves of a value are all ones the element field takes
RECURSIVE Clean(_)
Clean(x) ==
    IF IsListOrTuple(x)
    THEN \A k \in 1..Len(IterItems(x)) : Clean(IterItems(x)[k])
    ELSE x = None \/ InTypes(x, ElementField.types)

ArgKind(x) ==
    IF IsList(x) THEN "list" ELSE IF x.tag = "tuple" THEN "tuple" ELSE "scalar"

\* What is kept of an operation: which it was, the shape of the value it was
\* given, the exception it raised, and whether it left the stored value as
\* it was.
Did(op, arg, index, r) ==
    [op |-> op, kind |-> ArgKind(arg), err |-> r.err,
     kept |-> r.f.value = arr.value]

\* the fields an Array machine starts from
ArrayFields == {Array__init__(ElementField, d, 0, 0 - 1) : d \in 1..MaxDim}
NoOp == [op |-> "init", kind |-> "scalar", err |-> NoErr, kept |-> TRUE]

Fits(f) == HoldsList(f) => Len(StoredItems(f)) <= MaxLen

Step(op, arg, index, r) ==
    /\ UNCHANGED <<oneofVars, astVars, csVars, sqVars, cwVars, fdVars, rgVars, thVars, cdcVars, tnVars, vlVars, pgVars, plVars, hsVars, tgVars>>
    /\ Fits(r.f)
    /\ arr' = r.f
    /\ alast' = Did(op, arg, index, r)

ArrCall(value) == Step("call", value, 0, Array__call__(arr, value))
ArrSetItem(index, value) ==
    Step("setitem", value, index, Array__setitem__(arr, index, value))
ArrDelItem(index) == Step("delitem", Empty, index, Array__delitem__(arr, index))
ArrAppend(value) == Step("append", value, 0, Array_append(arr, value))
ArrPop(index) == Step("pop", Empty, index, Array_pop(arr, index))
ArrInsert(index, value) ==
    Step("insert", value, index, Array_insert(arr, index, value))
ArrRemove(value) == Step("remove", value, 0, Array_remove(arr, value))
ArrExtend(value) == Step("extend", value, 0, Array_extend(arr, value))
ArrReverse == Step("reverse", Empty, 0, Array_reverse(arr))
ArrSort == \E r \in Array_sort(arr) : Step("sort", Empty, 0, r)

NextArray ==
    \/ \E value \in CallArgs : ArrCall(value)
    \/ \E index \in Indexes, value \in ItemArgs : ArrSetItem(index, value)
    \/ \E index \in Indexes : ArrDelItem(index)
    \/ \E value \in ItemArgs : ArrAppend(value)
    \/ \E index \in Indexes : ArrPop(index)
    \/ \E index \in Indexes, value \in ItemArgs : ArrInsert(index, value)
    \/ \E value \in ItemArgs : ArrRemove(value)
    \/ \E value \in ItemArgs : ArrExtend(value)
    \/ ArrReverse
    \/ ArrSort

(***************************************************************************)
(* C2: after any sequence of operations on an Array field with dimensions  *)
(* n >= 1, the list-nesting depth of the stored value is at most n.        *)
(***************************************************************************)
C2_DepthNeverExceedsDimensions ==
    HoldsList(arr) /\ arr.dimensions >= 1 =>
        Depth(arr.value) <= arr.dimensions

(***************************************************************************)
(* C3: whole-array assignment to an Array field with dimensions n.  A      *)
(* list nested to depth at most n, with leaves the element field takes,    *)
(* is stored (as a tagged arraylist with equal items); one nested to       *)
(* depth n + 1 raises the ValueError that reports n + 1 and n, and stores  *)
(* nothing.  This holds of the call in every state the field reaches, and  *)
(* of the call the machine made last.                                      *)
(***************************************************************************)
C3_WholeArrayDepth ==
    /\ \A v \in CallArgs :
          IsList(v) /\ Clean(v) =>
              LET r == Array__call__(arr, v)
                  n == arr.dimensions
              IN  /\ Depth(v) <= n =>
                        /\ r.err = NoErr
                        /\ r.f.value.tag = "arraylist"
                        /\ PyEq(r.f.value, v)
                  /\ Depth(v) = n + 1 =>
                        /\ r.err.cls = "ValueError"
                        /\ r.err = DepthErr(n + 1, n)
                        /\ r.f.value = arr.value
    /\ (alast.op = "call" /\ alast.kind = "list" /\ alast.err = NoErr) =>
          /\ arr.value.tag = "arraylist"
          /\ Depth(arr.value) <= arr.dimensions
    /\ (alast.op = "call" /\ alast.err.cls = "ValueError"
          /\ "dimension" \in DOMAIN alast.err) =>
          alast.err = DepthErr(arr.dimensions + 1, arr.dimensions)

C3_Witness ==
    /\ alast.op = "call"
    /\ arr.dimensions = 2
    /\ alast.err = DepthErr(3, 2)
    /\ HoldsList(arr)
    /\ Depth(arr.value) = 2

(***************************************************************************)
(* C4 as claimed: append, insert and extend all start the depth counter    *)
(* at 2, so each rejects a list with the depth error when dimensions is 1. *)
(***************************************************************************)
C4_AllThreeStartAtTwo ==
    (/\ alast.op \in {"append", "insert", "extend"}
     /\ alast.kind = "list"
     /\ arr.dimensions = 1) =>
        alast.err = DepthErr(2, 1)

(***************************************************************************)
(* C4 as amended: append(v) and insert(i, v) start the depth counter at 2: *)
(* a scalar v goes through the element field, and a list v is a nested     *)
(* array at depth 2, rejected with the depth error when dimensions is 1.   *)
(* extend(v) also sends a scalar v through the element field, but casts a  *)
(* list v with the counter at 1, as whole-array assignment does: a list    *)
(* of leaves is accepted when dimensions is 1 and its items are added.     *)
(***************************************************************************)
ScalarOutcome(v, r, f) ==
    IF v = None \/ InTypes(v, f.type.types)
    THEN r.f.type.value = v
    ELSE r.err = NotInErr(v, f.type.types)

C4_DepthCounter ==
    /\ \A v \in ItemArgs :
          LET n == arr.dimensions
              f == Array_make_list(arr)
              old == StoredItems(f)
              ap == Array_append(arr, v)
              ex == Array_extend(arr, v)
          IN  /\ ~IsListOrTuple(v) =>
                    /\ ScalarOutcome(v, ap, f)
                    /\ ScalarOutcome(v, ex, f)
                    /\ \A i \in Indexes :
                          ScalarOutcome(v, Array_insert(arr, i, v), f)
                    /\ ap.err = NoErr => StoredItems(ap.f) = Append(old, v)
              /\ IsList(v) /\ Clean(v) =>
                    /\ Depth(v) + 1 <= n =>
                          /\ ap.err = NoErr
                          /\ Len(StoredItems(ap.f)) = Len(old) + 1
                          /\ PyEq(StoredItems(ap.f)[Len(old) + 1], v)
                    /\ Depth(v) + 1 > n =>
                          /\ ap.err = DepthErr(n + 1, n)
                          /\ \A i \in Indexes :
                                Array_insert(arr, i, v).err = DepthErr(n + 1, n)
                    /\ Depth(v) <= n =>
                          /\ ex.err = NoErr
                          /\ PyEq(List(StoredItems(ex.f)),
                                  List(old \o IterItems(v)))
                    /\ Depth(v) > n => ex.err = DepthErr(n + 1, n)
    /\ (/\ alast.op \in {"append", "insert"}
        /\ alast.kind \in {"list", "tuple"}
        /\ arr.dimensions = 1) =>
          alast.err = DepthErr(2, 1)
    /\ (/\ alast.op = "extend"
        /\ alast.err.cls = "ValueError"
        /\ "dimension" \in DOMAIN alast.err) =>
          alast.err = DepthErr(arr.dimensions + 1, arr.dimensions)

C4_Witness ==
    /\ alast.op = "extend"
    /\ alast.kind = "list"
    /\ alast.err = NoErr
    /\ arr.dimensions = 1
    /\ HoldsList(arr)
    /\ Len(StoredItems(arr)) = 2

\* a field configured as f is, with nothing stored yet
Unset(f) == [f EXCEPT !.value = Empty]
\* the stored items with item k replaced by x
Replaced(xs, k, x) == [xs EXCEPT ![k] = x]
\* two outcomes agree: both raise, or neither does and the stored values
\* are equal
Agree(r, q) ==
    /\ (r.err = NoErr) = (q.err = NoErr)
    /\ r.err = NoErr => PyEq(r.f.value, q.f.value)

\* C26: on an Array field holding the list v, append(x) succeeds exactly
\* when assigning v + [x] to an equally configured field does, and then
\* both store equal values; a[i] = x likewise against assigning v with
\* item i replaced by x; for every x, scalar, list or tuple
C26_MutationAgreesWithAssignment ==
    HoldsList(arr) =>
        LET v == StoredItems(arr) IN
        /\ \A x \in ItemArgs :
                Agree(Array_append(arr, x),
                      Array__call__(Unset(arr), List(Append(v, x))))
        /\ \A x \in ItemArgs, i \in Indexes :
                IndexOk(Len(v), i) =>
                    Agree(Array__setitem__(arr, i, x),
                          Array__call__(Unset(arr),
                              List(Replaced(v, NormIndex(Len(v), i) + 1, x))))

\* what the code does: on a field whose stored list is no deeper than its
\* dimensions, append(x) agrees with the assignment for every x that is no
\* tuple, and a[i] = x for every x that is no list and no tuple
C26_AgreesForScalars ==
    (HoldsList(arr) /\ Depth(arr.value) <= arr.dimensions) =>
        LET v == StoredItems(arr) IN
        /\ \A x \in ItemArgs :
                x.tag # "tuple" =>
                    Agree(Array_append(arr, x),
                          Array__call__(Unset(arr), List(Append(v, x))))
        /\ \A x \in ItemArgs, i \in Indexes :
                (IndexOk(Len(v), i) /\ ~IsListOrTuple(x)) =>
                    Agree(Array__setitem__(arr, i, x),
                          Array__call__(Unset(arr),
                              List(Replaced(v, NormIndex(Len(v), i) + 1, x))))

\* a list was stored at an index of a field of one dimension, where the
\* assignment of the whole list raises the depth error
C26_IndexSetDisagrees ==
    /\ alast.op = "setitem"
    /\ alast.kind = "list"
    /\ alast.err = NoErr
    /\ arr.dimensions = 1
    /\ Array__call__(Unset(arr), List(StoredItems(arr))).err = DepthErr(2, 1)

\* the operations of Array that take a value and store it
Storing == {"call", "append", "insert", "extend", "setitem"}

\* C27: a whole-array assignment, append, insert, extend or index set that
\* raises leaves the value of the Array field exactly as it was before the
\* call, also when the field was unset or None before it
C27_FailedCallKeepsValue ==
    (alast.op \in Storing /\ alast.err # NoErr) => alast.kept

\* what the code does, for every value and index in every state the field
\* reaches: a whole-array assignment that raises keeps the value; append,
\* insert, extend and index set that raise keep a list, and turn an unset
\* or None value into the empty list that _make_list stored before the
\* value was looked at
C27_FailedCallKeepsList ==
    /\ \A v \in CallArgs :
            LET r == Array__call__(arr, v) IN
            r.err # NoErr => r.f.value = arr.value
    /\ \A v \in ItemArgs, i \in Indexes :
            \A r \in {Array_append(arr, v), Array_insert(arr, i, v),
                       Array_extend(arr, v), Array__setitem__(arr, i, v)} :
                r.err # NoErr =>
                    r.f.value = IF ValueIsNull(arr)
                                THEN Array_add_arr_type(arr, <<>>)
                                ELSE arr.value

\* an append of a value the element field refuses has raised on an unset
\* field and left an empty list in it
C27_EmptiedByFailure ==
    /\ alast.op = "append"
    /\ alast.err.cls = "ValueError"
    /\ ~alast.kept
    /\ arr.value = Array_add_arr_type(arr, <<>>)

(***************************************************************************)
(* The tree machine: a tree grows from a leaf by being made the operand of *)
(* a new Expression, Function, Clause, Case or creator statement.  Next to *)
(* the tree the machine keeps what the caller handed over: the texts       *)
(* wrapped as safe, and the literals given bare.                           *)
(***************************************************************************)
Literals == {Str("one"), Num(1)}
SafeTexts == {"1=1"}
CreatorNames == {"users"}
Fields == {Field("foo", "bar")}
Aliases == {None, Str("foo_alias")}
LeafOperands == Literals \cup {Safe(t) : t \in SafeTexts} \cup Fields

\* what handing over operand x adds to the record of safes and literals
Given(a, x) ==
    [a EXCEPT !.safes = IF x.tag = "safe" THEN @ \cup {x.text} ELSE @,
              !.lits = IF IsLiteral(x) THEN @ \cup {x} ELSE @,
              !.nlits = IF IsLiteral(x) THEN @ + 1 ELSE @]

AstLeaf(x) == Given([node |-> x, safes |-> {}, lits |-> {}, nlits |-> 0,
                     size |-> 0], x)
AstTrees == {AstLeaf(x) : x \in LeafOperands}
               \cup {AstLeaf(Function("now", NoArg, None))}

Grow(a, node) == [a EXCEPT !.node = node, !.size = @ + 1]

\* node <op> leaf, or leaf <op> node
AstExpression ==
    /\ ast.size < MaxNodes
    /\ \E leaf \in LeafOperands, onLeft \in BOOLEAN, alias \in Aliases,
          group \in BOOLEAN :
            ast' = Grow(Given(ast, leaf),
                        IF onLeft
                        THEN Expression(ast.node, "=", leaf, alias, group)
                        ELSE Expression(leaf, "=", ast.node, alias, group))
    /\ UNCHANGED <<oneofVars, arrVars, csVars, sqVars, cwVars, fdVars, rgVars, thVars, cdcVars, tnVars, vlVars, pgVars, plVars, hsVars, tgVars>>

\* max(node)
AstFunction ==
    /\ ast.size < MaxNodes
    /\ \E alias \in Aliases :
            ast' = Grow(ast, Function("max", ast.node, alias))
    /\ UNCHANGED <<oneofVars, arrVars, csVars, sqVars, cwVars, fdVars, rgVars, thVars, cdcVars, tnVars, vlVars, pgVars, plVars, hsVars, tgVars>>

\* NOT node, or FROM node FOR leaf
AstClause ==
    /\ ast.size < MaxNodes
    /\ \/ ast' = Grow(ast, Clause("NOT", <<ast.node>>))
       \/ \E leaf \in LeafOperands :
            ast' = Grow(Given(ast, leaf),
                        Clause("FROM", <<ast.node, Clause("FOR", <<leaf>>)>>))
    /\ UNCHANGED <<oneofVars, arrVars, csVars, sqVars, cwVars, fdVars, rgVars, thVars, cdcVars, tnVars, vlVars, pgVars, plVars, hsVars, tgVars>>

\* CASE WHEN cond THEN node [ELSE el] END, or CASE ELSE node END
AstCase ==
    /\ ast.size < MaxNodes
    /\ \E alias \in Aliases, use_field_name \in BOOLEAN :
        \/ \E cond \in LeafOperands, el \in {None} \cup Literals :
            ast' = Grow(IF el = None THEN Given(ast, cond)
                        ELSE Given(Given(ast, cond), el),
                        CaseNode(<<<<cond, ast.node>>>>, el, alias,
                                 use_field_name))
        \/ ast' = Grow(ast, CaseNode(<<>>, ast.node, alias, use_field_name))
    /\ UNCHANGED <<oneofVars, arrVars, csVars, sqVars, cwVars, fdVars, rgVars, thVars, cdcVars, tnVars, vlVars, pgVars, plVars, hsVars, tgVars>>

\* a creator named by a str, its query the tree: CREATE <name> <query>
AstCreator ==
    /\ ast.size < MaxNodes
    /\ \E n \in CreatorNames :
        LET bc == Creator(Str(n), ast.node)
        IN  ast' = Grow([ast EXCEPT !.safes = @ \cup {n}],
                        Clause("CREATE", <<BaseCreator_name(bc),
                                           BaseCreator_cast_safe(bc)>>))
    /\ UNCHANGED <<oneofVars, arrVars, csVars, sqVars, cwVars, fdVars, rgVars, thVars, cdcVars, tnVars, vlVars, pgVars, plVars, hsVars, tgVars>>

NextAst == AstExpression \/ AstFunction \/ AstClause \/ AstCase \/ AstCreator

(***************************************************************************)
(* C5.  At every level of the tree, under qualified and bare field names,  *)
(* standing alone or as an operand, the compiled string holds as many      *)
(* placeholders as there are parameters, and filling the placeholders with *)
(* the parameters in order gives the text that has every literal written   *)
(* out where it stands.  The same holds of a creator's string and params.  *)
(***************************************************************************)
Aligned(string, params) == Occurrences(string, Placeholder) = Len(params)

C5_PlaceholdersMatchParams ==
    \A x \in Subtrees(ast.node) :
        /\ \A bare \in BOOLEAN, nested \in BOOLEAN :
            LET c == Compile(x, bare, nested)
            IN  /\ ~c.err
                /\ Aligned(c.string, c.params)
                /\ Mogrified(c) = Compile(Inlined(x), bare, nested).string
        /\ \A n \in CreatorNames :
            LET bc == Creator(Str(n), x)
            IN  Aligned(BaseCreator_string(bc), BaseCreator_params(bc))

\* a Case under another node, with two different parameters in the tree
C5_Witness ==
    /\ ast.node.tag \in {"expression", "clause", "function"}
    /\ \E x \in Subtrees(ast.node) : x.tag = "case" /\ x.el # None
    /\ LET params == ParamsOf(ast.node)
       IN  /\ Len(params) >= 2
           /\ params[1] # params[2]
           /\ Aligned(StringOf(ast.node), params)

(***************************************************************************)
(* C9.  Every text handed over wrapped as safe, by safe() or as the name   *)
(* of a creator, stands verbatim in the compiled string and is no          *)
(* parameter; the placeholders and the parameters are as many as the       *)
(* literals handed over bare, every parameter is one of them, and none of  *)
(* their texts stands in the compiled string.  Leaf by leaf: a safe leaf   *)
(* compiles to its text and no parameter, a bare literal to one            *)
(* placeholder and itself as the one parameter.                            *)
(***************************************************************************)
C9_SafeVerbatimLiteralBound ==
    LET c == Compile(ast.node, FALSE, FALSE)
    IN  /\ \A t \in ast.safes :
            /\ Occurrences(c.string, t) >= 1
            /\ \A k \in DOMAIN c.params : c.params[k] # Str(t)
        /\ Occurrences(c.string, Placeholder) = ast.nlits
        /\ Len(c.params) = ast.nlits
        /\ \A k \in DOMAIN c.params : c.params[k] \in ast.lits
        /\ \A v \in ast.lits :
            /\ Occurrences(c.string, TextOf(v)) = 0
            /\ \E k \in DOMAIN c.params : c.params[k] = v
        /\ \A x \in Subtrees(ast.node) :
            /\ x.tag = "safe" => Compile(x, FALSE, TRUE) = Compiled(<<x.text>>, <<>>)
            /\ IsLiteral(x) => Compile(x, FALSE, TRUE) = Compiled(<<Placeholder>>, <<x>>)

\* a creator's name and a safe() fragment next to a bare literal
C9_Witness ==
    /\ \E n \in CreatorNames : n \in ast.safes
    /\ \E t \in SafeTexts : t \in ast.safes
    /\ ast.nlits >= 1
    /\ Occurrences(StringOf(ast.node), Placeholder) = ast.nlits

(***************************************************************************)
(* The Case machine: a Case is constructed, then when() and el() are       *)
(* called on it.  Next to the builder the machine keeps every argument     *)
(* supplied, in order, how many pairs each call brought, and what each     *)
(* el() call was given.                                                    *)
(***************************************************************************)
CondTexts == {"1", "2"}
Conditions == {Expression(Field("foo", "bar"), "=", Safe(t), None, FALSE) :
                    t \in CondTexts}
Results == {Str("one"), Str("two")}
ElValues == {Str("three"), Str("four")}

\* alternating condition, result argument lists of n pairs
RECURSIVE WhenArgs(_)
WhenArgs(n) ==
    IF n = 0 THEN {<<>>}
    ELSE {<<c, r>> \o rest :
            c \in Conditions, r \in Results, rest \in WhenArgs(n - 1)}

CaseStart(args, el, alias, use_field_name) ==
    [case |-> Case__init__(args, el, alias, use_field_name),
     given |-> args, calls |-> <<Len(args) \div 2>>, els |-> <<>>]

CaseBuilders ==
    {CaseStart(args, el, alias, use_field_name) :
        args \in UNION {WhenArgs(n) : n \in 0..2},
        el \in {None} \cup ElValues,
        alias \in Aliases, use_field_name \in BOOLEAN}

CaseWhen ==
    /\ \E n \in 1..2 :
        /\ Len(cs.given) \div 2 + n <= MaxPairs
        /\ \E args \in WhenArgs(n) :
            cs' = [cs EXCEPT !.case = Case_when(cs.case, args),
                             !.given = @ \o args,
                             !.calls = Append(@, n)]
    /\ UNCHANGED <<oneofVars, arrVars, astVars, sqVars, cwVars, fdVars, rgVars, thVars, cdcVars, tnVars, vlVars, pgVars, plVars, hsVars, tgVars>>

CaseEl ==
    /\ Len(cs.els) < MaxEls
    /\ \E e \in ElValues :
        cs' = [cs EXCEPT !.case = Case_el(cs.case, e), !.els = Append(@, e)]
    /\ UNCHANGED <<oneofVars, arrVars, astVars, sqVars, cwVars, fdVars, rgVars, thVars, cdcVars, tnVars, vlVars, pgVars, plVars, hsVars, tgVars>>

NextCase == CaseWhen \/ CaseEl

(***************************************************************************)
(* C6.  Once el() has been called, the builder compiles, string and        *)
(* parameters, to what the Case constructed in one step from all the       *)
(* pairs supplied and el = the argument of the last el() call compiles to. *)
(***************************************************************************)
LastOf(xs) == xs[Len(xs)]

C6_LastElWins ==
    Len(cs.els) >= 1 =>
        LET oneStep == Case__init__(cs.given, LastOf(cs.els), cs.case.alias,
                                    cs.case.use_field_name)
        IN  \A bare \in BOOLEAN, nested \in BOOLEAN :
                /\ ~Compile(cs.case, bare, nested).err
                /\ Compile(cs.case, bare, nested)
                        = Compile(oneStep, bare, nested)
                /\ LastOf(Compile(cs.case, bare, nested).params)
                        = LastOf(cs.els)

\* an empty Case(), two when() calls, then el(e1) and el(e2), e1 # e2
C6_Witness ==
    /\ cs.calls = <<0, 1, 1>>
    /\ Len(cs.els) = 2
    /\ cs.els[1] # cs.els[2]
    /\ LastOf(ParamsOf(cs.case)) = cs.els[2]

(***************************************************************************)
(* C7.  However the pairs were split between the constructor and the       *)
(* when() calls, the builder compiles to what the Case constructed in one  *)
(* step from all the pairs compiles to; the conditions stand in the text,  *)
(* and the results among the parameters, in the order supplied.            *)
(***************************************************************************)
RECURSIVE Keep(_, _)
Keep(xs, S) ==
    IF xs = <<>> THEN <<>>
    ELSE (IF xs[1] \in S THEN <<xs[1]>> ELSE <<>>) \o Keep(Tail(xs), S)

C7_WhenOrder ==
    LET oneStep == Case__init__(cs.given, cs.case.el, cs.case.alias,
                                cs.case.use_field_name)
        n == Len(cs.given) \div 2
    IN  /\ \A bare \in BOOLEAN, nested \in BOOLEAN :
            Compile(cs.case, bare, nested) = Compile(oneStep, bare, nested)
        /\ (n > 0 \/ cs.case.el # None) =>
            /\ Keep(StringOf(cs.case), CondTexts)
                    = [i \in 1..n |-> cs.given[2 * i - 1].right.text]
            /\ Keep(ParamsOf(cs.case), Results)
                    = [i \in 1..n |-> cs.given[2 * i]]
            /\ Occurrences(StringOf(cs.case), "WHEN") = n
            /\ Occurrences(StringOf(cs.case), "THEN") = n

\* one pair in the constructor, then two when() calls, or one with two
\* pairs; the pairs differ
C7_Witness ==
    /\ cs.calls \in {<<1, 1, 1>>, <<1, 2>>}
    /\ cs.given[1] # cs.given[3]
    /\ cs.given[2] # cs.given[4]
    /\ Occurrences(StringOf(cs.case), "WHEN") = 3

(***************************************************************************)
(* The set-operation machine: q starts as a Select and is combined, one    *)
(* operator at a time, with further Selects.  Next to q the machine keeps  *)
(* the first operand and every combination made.                           *)
(***************************************************************************)
Selects == {Select(<<"SELECT", "1 as foo">>, <<>>),
            Select(<<"SELECT", Placeholder>>, <<Num(1)>>)}
Operators == {"&", "+", "-", ">", ">=", ">>", "<", "<=", "<<"}

SetOpsStart(q) == [q |-> q, first |-> q, combined |-> <<>>]
SetOpsChains == {SetOpsStart(q) : q \in Selects}

SetCombine ==
    /\ Len(sq.combined) < MaxChain
    /\ \E operator \in Operators, other \in Selects :
        sq' = [sq EXCEPT !.q = Combine(sq.q, operator, other),
                         !.combined = Append(@, [operator |-> operator,
                                                 other |-> other])]
    /\ UNCHANGED <<oneofVars, arrVars, astVars, csVars, cwVars, fdVars, rgVars, thVars, cdcVars, tnVars, vlVars, pgVars, plVars, hsVars, tgVars>>

NextSetOps == SetCombine

(***************************************************************************)
(* C8.  After k - 1 combinations of k sub-queries the text holds each      *)
(* keyword once for every combination whose keyword begins with it, so a   *)
(* chain of one combinator holds its keyword exactly k - 1 times; the      *)
(* text begins with the first operand's text, holds each operand's text    *)
(* once for every combination with it (and once more if it is the first    *)
(* operand), and has as many placeholders as parameters; the result can be *)
(* combined again.                                                         *)
(***************************************************************************)
IsPrefix(a, b) == Len(a) <= Len(b) /\ SubSeq(b, 1, Len(a)) = a
Combinations(P(_)) ==
    Cardinality({i \in DOMAIN sq.combined : P(sq.combined[i])})

C8_SetOperationChain ==
    LET c == QueryOf(sq.q)
        k == Len(sq.combined) + 1
    IN  /\ \A operator \in Operators :
            Count(c.string, Keyword(operator))
                = Combinations(LAMBDA m : IsPrefix(Keyword(operator),
                                                   Keyword(m.operator)))
        /\ \A operator \in Operators :
            (\A i \in DOMAIN sq.combined : sq.combined[i].operator = operator)
                => Count(c.string, Keyword(operator)) = k - 1
        /\ IsPrefix(sq.first.string, c.string)
        /\ \A other \in Selects :
            Count(c.string, other.string)
                = Combinations(LAMBDA m : m.other = other)
                    + (IF other = sq.first THEN 1 ELSE 0)
        /\ Aligned(c.string, c.params)
        /\ k > 1 => sq.q.tag = "setoperations"
        /\ Len(sq.combined) < MaxChain => ENABLED SetCombine

\* q1 + q2 + q2 + q2: three UNION ALL over four sub-queries
C8_Witness ==
    /\ Len(sq.combined) = 3
    /\ \A i \in DOMAIN sq.combined :
        /\ sq.combined[i].operator = "+"
        /\ sq.combined[i].other # sq.first
        /\ sq.combined[i].other = sq.combined[1].other
    /\ Count(QueryOf(sq.q).string, <<"UNION", "ALL">>) = 3

(***************************************************************************)
(* The copy machine: a Bit, a OneOf or an Array field is given values,     *)
(* copied once, and then the original and the copy are given values in     *)
(* any order.  The machine remembers, of the last operation, which of the  *)
(* two it was made on and what the other one was before it.                *)
(***************************************************************************)
BitLengths == {2, 3}
TypeNames == {None, Str("letters")}
MaxLens == {0 - 1, 2}
CopyCallArgs(cls) ==
    CASE cls = "Bit" -> {None, Str("101")}
      [] cls = "OneOf" -> {None, Str("a"), Str("b"), Str("z")}
      [] OTHER -> {None, List(<<Str("a")>>), List(<<Str("b"), Str("a")>>)}
CopyItemArgs == {Str("a"), Str("b"), List(<<Str("b")>>)}
CopyIndexes == {0, 1}

NoMutation == [target |-> "none", op |-> "none", other |-> None, err |-> NoErr]
CopyStart(made) ==
    [heap |-> made.heap, orig |-> made.ref, copy |-> None, n |-> 0,
     last |-> NoMutation]

CopyWorlds ==
    {CopyStart(Alloc(<<>>, Object("Bit", Bit__init__(length)))) :
        length \in BitLengths}
    \cup {CopyStart(Alloc(<<>>, Object("OneOf",
                                       OneOf__init__(<<"a", "b">>, name)))) :
            name \in TypeNames}
    \cup {CopyStart(Array__init__At(
                        <<Object("OneOf", OneOf__init__(<<"a", "b">>, name))>>,
                        Ref(1), d, 0, maxlen)) :
            name \in TypeNames, d \in 1..MaxDim, maxlen \in MaxLens}

Targets == IF cw.copy = None THEN {"orig"} ELSE {"orig", "copy"}
RefOf(target) == IF target = "orig" THEN cw.orig ELSE cw.copy
OtherOf(target) == IF target = "orig" THEN cw.copy ELSE cw.orig
ClsOf(r) == cw.heap[r.n].cls

\* the machine after operation op on target left the heap as h
Mutated(target, op, h, err) ==
    /\ cw.n < MaxCopyOps
    /\ cw' = [cw EXCEPT !.heap = h, !.n = @ + 1,
                        !.last = [target |-> target, op |-> op, err |-> err,
                                  other |-> IF cw.copy = None THEN None
                                            ELSE Load(cw.heap, OtherOf(target))]]
    /\ UNCHANGED <<oneofVars, arrVars, astVars, csVars, sqVars, fdVars, rgVars, thVars, cdcVars, tnVars, vlVars, pgVars, plVars, hsVars, tgVars>>

CwCopy ==
    /\ cw.copy = None
    /\ \E preserve \in BOOLEAN :
        LET c == CopyAt(cw.heap, cw.orig, preserve)
        IN  cw' = [cw EXCEPT !.heap = c.heap, !.copy = c.ref,
                             !.last = NoMutation]
    /\ UNCHANGED <<oneofVars, arrVars, astVars, csVars, sqVars, fdVars, rgVars, thVars, cdcVars, tnVars, vlVars, pgVars, plVars, hsVars, tgVars>>

CwCall ==
    \E target \in Targets :
        LET r == RefOf(target)
        IN  \E value \in CopyCallArgs(ClsOf(r)) :
            CASE ClsOf(r) = "Bit" ->
                    LET g == Bit__call__(At(cw.heap, r), value)
                    IN  Mutated(target, "call",
                                StoreField(cw.heap, r, g.f), g.err)
              [] ClsOf(r) = "OneOf" ->
                    LET g == OneOf__call__(At(cw.heap, r), value)
                    IN  Mutated(target, "call",
                                StoreField(cw.heap, r, g.f), g.err)
              [] OTHER ->
                    LET g == Array__call__(Load(cw.heap, r), value)
                    IN  Mutated(target, "call",
                                StoreArray(cw.heap, r, g.f, g.err # NoErr),
                                g.err)

\* an operation on the list of an Array, in place
InPlace(target, op, g) ==
    Mutated(target, op, StoreArray(cw.heap, RefOf(target), g.f, TRUE), g.err)

CwAppend ==
    \E target \in Targets, value \in CopyItemArgs :
        /\ ClsOf(RefOf(target)) = "Array"
        /\ InPlace(target, "append",
                   Array_append(Load(cw.heap, RefOf(target)), value))

CwInsert ==
    \E target \in Targets, value \in CopyItemArgs, index \in CopyIndexes :
        /\ ClsOf(RefOf(target)) = "Array"
        /\ InPlace(target, "insert",
                   Array_insert(Load(cw.heap, RefOf(target)), index, value))

CwExtend ==
    \E target \in Targets, value \in CopyItemArgs :
        /\ ClsOf(RefOf(target)) = "Array"
        /\ InPlace(target, "extend",
                   Array_extend(Load(cw.heap, RefOf(target)), List(<<value>>)))

CwSetItem ==
    \E target \in Targets, value \in CopyItemArgs, index \in CopyIndexes :
        /\ ClsOf(RefOf(target)) = "Array"
        /\ InPlace(target, "setitem",
                   Array__setitem__(Load(cw.heap, RefOf(target)), index, value))

NextCopy == CwCopy \/ CwCall \/ CwAppend \/ CwInsert \/ CwExtend \/ CwSetItem

(***************************************************************************)
(* C10.  The copy is a new field of the same class with the same           *)
(* configuration: the length of a Bit, the types and the type name of a    *)
(* OneOf, the element field's class, types and type name and the           *)
(* dimensions, minlen and maxlen of an Array.  And whatever the last       *)
(* operation on one of the two was, the other one, its value and its       *)
(* element field, is what it was before.                                   *)
(***************************************************************************)
ScalarConfiguration(h, r) ==
    IF h[r.n].cls = "Bit" THEN [cls |-> "Bit", length |-> At(h, r).length]
    ELSE [cls |-> "OneOf", types |-> At(h, r).types,
          type_name |-> At(h, r)._type_name]

Configuration(h, r) ==
    CASE h[r.n].cls # "Array" -> ScalarConfiguration(h, r)
      [] OTHER ->
            [cls |-> "Array",
             type |-> ScalarConfiguration(h, At(h, r).type),
             dimensions |-> At(h, r).dimensions,
             minlen |-> At(h, r).minlen, maxlen |-> At(h, r).maxlen]

C10_CopyKeepsConfigurationAndIsolates ==
    cw.copy # None =>
        /\ cw.copy # cw.orig
        /\ Configuration(cw.heap, cw.copy) = Configuration(cw.heap, cw.orig)
        /\ cw.last.target # "none" =>
                Load(cw.heap, OtherOf(cw.last.target)) = cw.last.other

\* an Array of two dimensions copied with its list, then the copy appended
\* to: the lists and the element fields now differ
C10_Witness ==
    /\ cw.copy # None
    /\ ClsOf(cw.orig) = "Array"
    /\ At(cw.heap, cw.orig).dimensions = 2
    /\ cw.last.target = "copy"
    /\ cw.last.op = "append"
    /\ cw.last.err = NoErr
    /\ IsList(cw.last.other.value)
    /\ Load(cw.heap, cw.copy).value # Load(cw.heap, cw.orig).value
    /\ Load(cw.heap, cw.copy).type # Load(cw.heap, cw.orig).type

(***************************************************************************)
(* The field-call machine: a field of one of the field classes is called   *)
(* with a value, with None, with the `empty` sentinel or with no argument, *)
(* and cleared.                                                            *)
(***************************************************************************)
TimeClasses == {"Time", "TimeTZ", "Date", "Timestamp", "TimestampTZ"}

FieldClasses ==
    {"Bit", "Varbit", "OneOf", "Array", "IP", "Cidr", "MacAddress",
     "Binary", "Slug", "Password", "Key", "Email", "Duration",
     "PhoneNumber"} \cup TimeClasses

\* a field of the class, as its __init__ leaves it
NewField(cls) ==
    CASE cls \in {"Bit", "Varbit"} -> Bit__init__(2)
      [] cls = "OneOf" -> OneOf__init__(<<"cat", "dog">>, None)
      [] cls = "Array" -> Array__init__(ElementField, 1, 0, 0 - 1)
      [] cls = "Password" -> Password__init__
      [] cls \in TimeClasses -> Time__init__
      [] OTHER -> Field__init__

\* a call with no argument at all
Missing == [tag |-> "missing"]

\* values of the class's own kind that a caller passes
RawValues(cls) ==
    CASE cls \in {"Bit", "Varbit"} -> {Str("10"), Str("01")}
      [] cls = "OneOf" -> {Str("cat"), Str("dog")}
      [] cls = "Array" -> {List(<<Str("a")>>), List(<<>>)}
      [] cls = "IP" -> {Str("raw"), IP_current}
      [] cls = "Password" -> {Str("raw"), Normalized("hash", Str("raw"))}
      [] cls \in TimeClasses -> {Str("raw"), Normalized("Arrow", Str("raw"))}
      [] OTHER -> {Str("raw"), Str("other")}

FieldCallArgs(cls) == {Missing, Empty, None} \cup RawValues(cls)

\* def __call__(self, value=Field.empty) of every class but PhoneNumber,
\* whose signature is __call__(self, value)
HasDefault(cls) == cls # "PhoneNumber"

Outcome(r) == [f |-> r.f, err |-> r.err]

\* cls.__call__ with the arguments of the call: the outcomes
Field__call__(cls, f, arg) ==
    LET value == IF arg = Missing THEN Empty ELSE arg IN
    IF arg = Missing /\ ~HasDefault(cls)
    THEN {[f |-> f, err |-> MissingArgErr]}
    ELSE CASE cls \in {"Bit", "Varbit"} -> {Bit__call__(f, value)}
           [] cls = "OneOf" -> {Outcome(OneOf__call__(f, value))}
           [] cls = "Array" -> {Outcome(Array__call__(f, value))}
           [] cls = "IP" -> {IP__call__(f, value)}
           [] cls = "Cidr" -> {Cidr__call__(f, value)}
           [] cls = "MacAddress" -> {MacAddress__call__(f, value)}
           [] cls = "Binary" -> {Binary__call__(f, value)}
           [] cls = "Slug" -> {Slug__call__(f, value)}
           [] cls = "Password" -> {Password__call__(f, value)}
           [] cls = "Key" -> {Key__call__(f, value)}
           [] cls = "Email" -> {Email__call__(f, value)}
           [] cls = "Duration" -> {Duration__call__(f, value)}
           [] cls = "PhoneNumber" -> {PhoneNumber__call__(f, value)}
           [] cls \in TimeClasses -> Time__call__(f, value)

\* Field.clear
Field_clear(f) == [f EXCEPT !.value = Empty]

\* Password.clear
Password_clear(f) == [f EXCEPT !.validation_value = Empty, !.value = Empty]

\* Array.clear
Array_clear(f) == [f EXCEPT !.value = Empty, !.type = Field_clear(@)]

FieldStart(cls) ==
    [cls |-> cls, f |-> NewField(cls),
     last |-> [op |-> "init", arg |-> Empty, before |-> Empty,
               err |-> NoErr, ret |-> Empty]]

FieldWorlds == {FieldStart(cls) : cls \in FieldClasses}

\* field(value), field(None), field(empty), field(): on an exception nothing
\* is returned
FieldCall(arg) ==
    /\ arg \in FieldCallArgs(fd.cls)
    /\ \E r \in Field__call__(fd.cls, fd.f, arg) :
         fd' = [fd EXCEPT !.f = r.f,
                          !.last = [op |-> "call", arg |-> arg,
                                    before |-> fd.f.value, err |-> r.err,
                                    ret |-> IF r.err = NoErr THEN r.f.value
                                            ELSE Empty]]
    /\ UNCHANGED <<oneofVars, arrVars, astVars, csVars, sqVars, cwVars, rgVars, thVars, cdcVars, tnVars, vlVars, pgVars, plVars, hsVars, tgVars>>

\* field.clear()
FieldClear ==
    /\ fd' = [fd EXCEPT !.f = CASE fd.cls = "Array" -> Array_clear(fd.f)
                                [] fd.cls = "Password" -> Password_clear(fd.f)
                                [] OTHER -> Field_clear(fd.f),
                        !.last = [op |-> "clear", arg |-> Empty,
                                  before |-> fd.f.value, err |-> NoErr,
                                  ret |-> Empty]]
    /\ UNCHANGED <<oneofVars, arrVars, astVars, csVars, sqVars, cwVars, rgVars, thVars, cdcVars, tnVars, vlVars, pgVars, plVars, hsVars, tgVars>>

NextField ==
    \/ \E arg \in UNION {FieldCallArgs(cls) : cls \in FieldClasses} :
         FieldCall(arg)
    \/ FieldClear

\* C11: a call with None, on a field of any class, raises nothing and
\* leaves None as the stored value, whatever was stored before
C11_NoneStoredAsNone ==
    (fd.last.op = "call" /\ fd.last.arg = None) =>
        (fd.last.err = NoErr /\ fd.f.value = None)

\* C11 holds of every class whose __call__ tests for None
C11_NoneStoredOutsideTime ==
    (fd.last.op = "call" /\ fd.last.arg = None /\ fd.cls \notin TimeClasses) =>
        (fd.last.err = NoErr /\ fd.f.value = None)

\* C12: a call with no argument, or with the `empty` sentinel, raises
\* nothing, leaves the stored value as it was and returns it, so that a
\* field never assigned or just cleared returns `empty`; and after a call
\* with None the stored value is None, which is not `empty`
C12_EmptySentinel ==
    /\ (fd.last.op = "call" /\ fd.last.arg \in {Missing, Empty}) =>
            /\ fd.last.err = NoErr
            /\ fd.f.value = fd.last.before
            /\ fd.last.ret = fd.f.value
    /\ (fd.last.op = "call" /\ fd.last.arg = None) =>
            (fd.f.value = None /\ fd.f.value # Empty)

\* C12 holds of a call with no argument on every class whose __call__
\* has the default, and of a call with None on every class whose __call__
\* tests for None
C12_EmptySentinelWithDefault ==
    /\ (fd.last.op = "call" /\ fd.last.arg \in {Missing, Empty}
            /\ (fd.last.arg = Missing => HasDefault(fd.cls))) =>
            /\ fd.last.err = NoErr
            /\ fd.f.value = fd.last.before
            /\ fd.last.ret = fd.f.value
    /\ (fd.last.op = "call" /\ fd.last.arg = None
            /\ fd.cls \notin TimeClasses) =>
            (fd.f.value = None /\ fd.f.value # Empty)

(***************************************************************************)
(* The registration machine: register_type is called on a OneOf field and  *)
(* on copies of it, one call at a time, against a database that has the    *)
(* type, half of it or nothing, and that may be given the type later.      *)
(***************************************************************************)
RegFields ==
    {OneOf__init__(<<"cat", "dog">>, Str("mood")),
     [OneOf__init__(<<"cat", "dog">>, None)
        EXCEPT !.table = Str("pets"), !.field_name = Str("kind")]}

\* the type names of the fields and of their copies
DbNames ==
    {OneOf_type_name(f) : f \in RegFields}
        \cup {OneOf_type_name(OneOf_copy(f, FALSE)) : f \in RegFields}

Databases == [DbNames -> 0..2]

Resolved(f) == f._type_oid # None /\ f._type_array_oid # None
Unresolved(f) == f._type_oid = None /\ f._type_array_oid = None

RegStart(sh) ==
    [sh |-> sh, n |-> 0,
     last |-> [op |-> "init", target |-> 0, before |-> sh, err |-> NoErr]]

RegWorlds ==
    {RegStart(Shared(<<f>>, db)) : f \in RegFields, db \in Databases}

\* field.register_type(db), the whole call
RgRegister(i) ==
    /\ rg.n < MaxRegOps
    /\ i \in 1..Len(rg.sh.fields)
    /\ \E o \in OneOf_register_type(rg.sh, i) :
         rg' = [sh |-> o.sh, n |-> rg.n + 1,
                last |-> [op |-> "register", target |-> i,
                          before |-> rg.sh, err |-> o.fr.err]]
    /\ UNCHANGED <<oneofVars, arrVars, astVars, csVars, sqVars, cwVars, fdVars, thVars, cdcVars, tnVars, vlVars, pgVars, plVars, hsVars, tgVars>>

\* field.copy()
RgCopy(i) ==
    /\ rg.n < MaxRegOps
    /\ Len(rg.sh.fields) < MaxRegFields
    /\ i \in 1..Len(rg.sh.fields)
    /\ rg' = [sh |-> [rg.sh EXCEPT !.fields =
                        Append(@, OneOf_copy(rg.sh.fields[i], FALSE))],
              n |-> rg.n + 1,
              last |-> [op |-> "copy", target |-> i, before |-> rg.sh,
                        err |-> NoErr]]
    /\ UNCHANGED <<oneofVars, arrVars, astVars, csVars, sqVars, cwVars, fdVars, thVars, cdcVars, tnVars, vlVars, pgVars, plVars, hsVars, tgVars>>

\* CREATE TYPE in the database, by someone else
RgCreateType(typname) ==
    /\ rg.n < MaxRegOps
    /\ rg.sh.db[typname] < 2
    /\ rg' = [sh |-> [rg.sh EXCEPT !.db[typname] = 2], n |-> rg.n + 1,
              last |-> [op |-> "create", target |-> 0, before |-> rg.sh,
                        err |-> NoErr]]
    /\ UNCHANGED <<oneofVars, arrVars, astVars, csVars, sqVars, cwVars, fdVars, thVars, cdcVars, tnVars, vlVars, pgVars, plVars, hsVars, tgVars>>

NextRegister ==
    \/ \E i \in 1..MaxRegFields : RgRegister(i)
    \/ \E i \in 1..MaxRegFields : RgCopy(i)
    \/ \E typname \in DbNames : RgCreateType(typname)

\* C13: a register_type call on a field whose two identifiers are cached
\* makes no round-trip to the database, raises nothing, warns of nothing
\* and leaves the field as it was; and a copy of such a field has the same
\* two identifiers cached, so the same holds of it
C13_CachedRegistrationIsCheap ==
    LET b == rg.last.before
        i == rg.last.target
    IN  /\ (rg.last.op = "register" /\ Resolved(b.fields[i])) =>
                /\ rg.sh.trips = b.trips
                /\ rg.last.err = NoErr
                /\ rg.sh.warnings = b.warnings
                /\ rg.sh.fields = b.fields
        /\ (rg.last.op = "copy" /\ Resolved(b.fields[i])) =>
                LET c == rg.sh.fields[Len(rg.sh.fields)]
                IN  /\ c._type_oid = b.fields[i]._type_oid
                    /\ c._type_array_oid = b.fields[i]._type_array_oid

\* the field was resolved in one round-trip, then copied, and the copy has
\* just been registered with no further round-trip
C13_Witness ==
    /\ rg.last.op = "register"
    /\ rg.last.target = 2
    /\ Resolved(rg.last.before.fields[2])
    /\ rg.sh.trips = 1
    /\ rg.last.err = NoErr
    /\ \E e \in rg.sh.table : e.oid = rg.sh.fields[2]._type_oid

\* C14: when the database has fewer than the two rows for the type name of
\* an unresolved field, register_type makes its round-trip, raises nothing,
\* emits one warning, leaves the registration table as it was and leaves
\* both identifiers unset, so that the next call makes the round-trip again
C14_TypeNotFoundWarns ==
    LET b == rg.last.before
        i == rg.last.target
    IN  (rg.last.op = "register" /\ Unresolved(b.fields[i])
            /\ b.db[OneOf_type_name(b.fields[i])] < 2) =>
            /\ rg.last.err = NoErr
            /\ rg.sh.warnings = b.warnings + 1
            /\ rg.sh.table = b.table
            /\ Unresolved(rg.sh.fields[i])
            /\ rg.sh.trips = b.trips + 1

\* two calls in a row found one row only: two round-trips, two warnings,
\* nothing registered
C14_Witness ==
    /\ rg.last.op = "register"
    /\ rg.last.before.db[OneOf_type_name(rg.sh.fields[1])] = 1
    /\ rg.last.target = 1
    /\ rg.sh.trips = 2
    /\ rg.sh.warnings = 2
    /\ rg.sh.table = {}
    /\ Unresolved(rg.sh.fields[1])

(***************************************************************************)
(* The threads machine: several threads call register_type on the same     *)
(* field with no lock, each running the steps of its call, in any          *)
(* interleaving, against a database that does not change.                  *)
(***************************************************************************)
Threads == 1..MaxThreads

ThreadsStart(sh) ==
    [sh |-> sh, start |-> sh, frames |-> [t \in Threads |-> Frame("check")]]

ThreadWorlds ==
    {ThreadsStart(Shared(<<f>>, db)) : f \in RegFields, db \in Databases}

\* thread t runs the next step of its register_type call
ThStep(t) ==
    /\ th.frames[t].pc # "done"
    /\ \E o \in OneOf_register_type_step(th.sh, th.frames[t], 1) :
         th' = [th EXCEPT !.sh = o.sh, !.frames[t] = o.fr]
    /\ UNCHANGED <<oneofVars, arrVars, astVars, csVars, sqVars, cwVars, fdVars, rgVars, cdcVars, tnVars, vlVars, pgVars, plVars, hsVars, tgVars>>

NextThreads == \E t \in Threads : ThStep(t)

AllDone == \A t \in Threads : th.frames[t].pc = "done"

\* C15: when every thread's call has ended, none has raised, and the
\* field's cached identifiers and the registration table are those one
\* call alone leaves
C15_ThreadSafeRegistration ==
    AllDone =>
        /\ \A t \in Threads : th.frames[t].err = NoErr
        /\ \E o \in OneOf_register_type(th.start, 1) :
                /\ o.sh.fields = th.sh.fields
                /\ o.sh.table = th.sh.table

\* whatever the interleaving, the cached identifiers end as one call alone
\* leaves them, and no call is left by a ValueError
C15_IdentifiersAgree ==
    AllDone =>
        /\ \A t \in Threads : th.frames[t].err # UnpackErr
        /\ \E o \in OneOf_register_type(th.start, 1) :
                o.sh.fields = th.sh.fields

(***************************************************************************)
(* The codec machine: a value is encoded by to_db, stored by the database  *)
(* and given back, and decoded by to_python.  A Binary column may also     *)
(* hold bytes that were stored before and never encoded.                   *)
(***************************************************************************)
ByteVals == {0, 65, 255}
RawVals == {43, 65, 255}

SeqsUpTo(S, n) == UNION {[1..k -> S] : k \in 0..n}

ArrayValues ==
    {r.f.value :
        r \in {rr \in {Array__call__(Array__init__(ElementField, d, 0, 0 - 1),
                                     l) :
                         d \in 1..MaxDim,
                         l \in {List(<<>>), List(<<Str("a")>>),
                                List(<<Str("a"), Str("b")>>),
                                List(<<List(<<Str("b")>>)>>)}} :
                 rr.err = NoErr}}

CodecClasses ==
    {"Binary", "Bit", "Varbit", "IP", "Cidr", "MacAddress", "Array"}

CodecValues(cls) ==
    CASE cls = "Binary" -> SeqsUpTo(ByteVals, MaxBytes)
      [] cls \in {"Bit", "Varbit"} ->
            {BitArray(b) : b \in {"", "1", "10", "0101"}}
      [] cls = "IP" ->
            {IPAddress(o) : o \in {<<10, 0, 0, 1>>, <<0, 0, 0, 0>>,
                                   <<255, 255, 255, 255>>}}
      [] cls = "Cidr" ->
            {IPNetwork(<<10, 0, 0, 0>>, 8), IPNetwork(<<10, 0, 0, 1>>, 8),
             IPNetwork(<<10, 0, 0, 1>>, 32), IPNetwork(<<0, 0, 0, 0>>, 0)}
      [] cls = "MacAddress" ->
            {EUI(<<0, 27, 119, 73, 84, 253>>), EUI(<<0, 0, 0, 0, 0, 0>>)}
      [] cls = "Array" -> ArrayValues

\* cls.to_db(value), and for an Array the adapter of its arraylist
Codec_to_db(cls, value) ==
    CASE cls = "Binary" -> bloombytes_to_db(value)
      [] cls \in {"Bit", "Varbit"} -> Bit_to_db(value)
      [] cls = "IP" -> IP_to_db(value)
      [] cls = "Cidr" -> Cidr_to_db(value)
      [] cls = "MacAddress" -> MacAddress_to_db(value)
      [] cls = "Array" -> ListAdapter_getquoted(value)

\* cls.to_python(value, cur)
Codec_to_python(cls, value) ==
    CASE cls = "Binary" -> Binary_to_python(value)
      [] cls \in {"Bit", "Varbit"} -> Bit_to_python(value)
      [] cls = "IP" -> IP_to_python(value)
      [] cls = "Cidr" -> Cidr_to_python(value)
      [] cls = "MacAddress" -> MacAddress_to_python(value)

CodecStart(cls, v) ==
    [cls |-> cls, raw |-> FALSE, v |-> v, wire |-> None, out |-> None,
     back |-> None, pc |-> "value"]

\* bytes that were in the column before, as the driver reads them
RawStart(bs) ==
    [cls |-> "Binary", raw |-> TRUE, v |-> bs, wire |-> None,
     out |-> Bytea(bs), back |-> None, pc |-> "stored"]

CodecWorlds ==
    UNION {{CodecStart(cls, v) : v \in CodecValues(cls)} :
                cls \in CodecClasses}
        \cup {RawStart(bs) : bs \in SeqsUpTo(RawVals, MaxRaw)}

\* the value is adapted for the database
CodecEncode ==
    /\ cdc.pc = "value"
    /\ cdc' = [cdc EXCEPT !.wire = Codec_to_db(cdc.cls, cdc.v),
                          !.pc = "wire"]
    /\ UNCHANGED <<oneofVars, arrVars, astVars, csVars, sqVars, cwVars, fdVars, rgVars, thVars, tnVars, vlVars, pgVars, plVars, hsVars, tgVars>>

\* the database stores what it was sent and gives it back
CodecStore ==
    /\ cdc.pc = "wire"
    /\ cdc.cls # "Array"
    /\ LET o == PgOutput(cdc.wire) IN
       cdc' = [cdc EXCEPT !.out = o,
                          !.pc = IF o = PgRefused THEN "refused"
                                 ELSE "stored"]
    /\ UNCHANGED <<oneofVars, arrVars, astVars, csVars, sqVars, cwVars, fdVars, rgVars, thVars, tnVars, vlVars, pgVars, plVars, hsVars, tgVars>>

\* what the driver read is cast to the value
CodecDecode ==
    /\ cdc.pc = "stored"
    /\ cdc' = [cdc EXCEPT !.back = Codec_to_python(cdc.cls, cdc.out),
                          !.pc = "decoded"]
    /\ UNCHANGED <<oneofVars, arrVars, astVars, csVars, sqVars, cwVars, fdVars, rgVars, thVars, tnVars, vlVars, pgVars, plVars, hsVars, tgVars>>

NextCodec == CodecEncode \/ CodecStore \/ CodecDecode

\* C16: a value that was encoded, stored and decoded comes back equal
C16_RoundTrip ==
    (cdc.pc = "decoded" /\ ~cdc.raw) => cdc.back = cdc.v

\* two bytes, whose encoding is padded, came back
C16_Witness ==
    /\ cdc.pc = "decoded"
    /\ ~cdc.raw
    /\ cdc.cls = "Binary"
    /\ Len(cdc.v) = 2
    /\ cdc.wire.bytes[4] = B64Pad
    /\ cdc.back = cdc.v

\* the characters of the base64 alphabet among the bytes
RECURSIVE B64Count(_)
B64Count(bs) ==
    IF bs = <<>> THEN 0
    ELSE (IF IsB64Char(bs[1]) THEN 1 ELSE 0) + B64Count(Tail(bs))

C18_ArrayLiteralWithTypeSuffix ==
    (cdc.cls = "Array" /\ cdc.pc = "wire") =>
        /\ cdc.wire.literal = PgList(PlainItems(cdc.v))
        /\ cdc.wire.cast = [type |-> cdc.v.cargotype, suffix |-> "[]"]

\* an Array's stored value with items in it is encoded with the cast
C18_NonEmptyArrayWithTypeSuffix ==
    (cdc.cls = "Array" /\ cdc.pc = "wire" /\ Len(cdc.v.aitems) > 0) =>
        /\ cdc.wire.literal = PgList(PlainItems(cdc.v))
        /\ cdc.wire.cast = [type |-> cdc.v.cargotype, suffix |-> "[]"]

(***************************************************************************)
(* The naming machine: two OneOf fields, with or without an explicit type  *)
(* name, are bound to a table and a column, and bound again.               *)
(***************************************************************************)
ExplicitNames == {None, Str(""), Str("mood")}
TableNames == {Str("a"), Str("a_b")}
ColumnNames == {Str("c"), Str("b_c")}

NamingStart(n1, n2) ==
    [f |-> OneOf__init__(<<"cat", "dog">>, n1),
     g |-> OneOf__init__(<<"cat">>, n2)]

NamingWorlds == {NamingStart(n1, n2) : n1 \in ExplicitNames, n2 \in ExplicitNames}

\* a model takes the field as the column of its table
Bind(f, table, column) == [f EXCEPT !.table = table, !.field_name = column]

TnBindF(table, column) ==
    /\ tn' = [tn EXCEPT !.f = Bind(@, table, column)]
    /\ UNCHANGED <<oneofVars, arrVars, astVars, csVars, sqVars, cwVars, fdVars, rgVars, thVars, cdcVars, vlVars, pgVars, plVars, hsVars, tgVars>>

TnBindG(table, column) ==
    /\ tn' = [tn EXCEPT !.g = Bind(@, table, column)]
    /\ UNCHANGED <<oneofVars, arrVars, astVars, csVars, sqVars, cwVars, fdVars, rgVars, thVars, cdcVars, vlVars, pgVars, plVars, hsVars, tgVars>>

NextNaming ==
    \/ \E table \in TableNames, column \in ColumnNames : TnBindF(table, column)
    \/ \E table \in TableNames, column \in ColumnNames : TnBindG(table, column)

HasExplicitName(f) == f._type_name # None /\ f._type_name # Str("")
IsBound(f) == f.table # None /\ f.field_name # None
BoundTo(f) == <<f.table, f.field_name>>

\* C19: type_name is the explicit name when one was given; else two fields
\* bound to the same table and column have the same name, and two fields
\* bound to different tables or columns have different names
C19_TypeNamePerColumn ==
    /\ \A h \in {tn.f, tn.g} :
            HasExplicitName(h) => OneOf_type_name(h) = h._type_name
    /\ (~HasExplicitName(tn.f) /\ ~HasExplicitName(tn.g)
            /\ IsBound(tn.f) /\ IsBound(tn.g)) =>
            /\ BoundTo(tn.f) = BoundTo(tn.g) =>
                    OneOf_type_name(tn.f) = OneOf_type_name(tn.g)
            /\ BoundTo(tn.f) # BoundTo(tn.g) =>
                    OneOf_type_name(tn.f) # OneOf_type_name(tn.g)

\* what holds of it: the explicit name is returned as it is, and the
\* derived name is the same for the same table and column
C19_ExplicitOrDerived ==
    /\ \A h \in {tn.f, tn.g} :
            HasExplicitName(h) => OneOf_type_name(h) = h._type_name
    /\ (~HasExplicitName(tn.f) /\ ~HasExplicitName(tn.g)
            /\ IsBound(tn.f) /\ IsBound(tn.g)
            /\ BoundTo(tn.f) = BoundTo(tn.g)) =>
            OneOf_type_name(tn.f) = OneOf_type_name(tn.g)

(***************************************************************************)
(* Validation.  The validators and Field.validate are not among the        *)
(* sources; they are written here from what the unit tests of Bool and of  *)
(* VarbitValidator assert: the null check comes first, a nullable field    *)
(* with no value passes, and only then is the value checked.               *)
(***************************************************************************)
PyBool(b) == [tag |-> "bool", b |-> b]

NoCode == [code |-> "none"]
NULL_CODE == [code |-> "NULL_CODE"]
LENGTH_CODE == [code |-> "LENGTH_CODE"]
TYPE_CODE == [code |-> "TYPE_CODE"]

\* Bool(not_null=...), Varbit(length, not_null=...)
Bool__init__(not_null) ==
    [value |-> Empty, not_null |-> not_null, length |-> 0]
Varbit__init__(length, not_null) ==
    [value |-> Empty, not_null |-> not_null, length |-> length]

\* bool(value)
Truth(value) ==
    CASE value.tag = "bool" -> value.b
      [] value.tag = "int" -> value.n # 0
      [] value.tag = "str" -> value.s # ""
      [] OTHER -> TRUE

\* Bool.__call__
Bool__call__(f, value) ==
    IF value # Empty
    THEN [f |-> [f EXCEPT !.value = IF value # None
                                     THEN PyBool(Truth(value))
                                     ELSE None],
          err |-> NoErr]
    ELSE [f |-> f, err |-> NoErr]

\* A validate that refuses a bit string as long as the length.
Validator_validateShorter(cls, f) ==
    IF f.not_null /\ ValueIsNull(f)
    THEN [ok |-> FALSE, code |-> NULL_CODE]
    ELSE IF ValueIsNull(f) \/ cls = "Bool"
    THEN [ok |-> TRUE, code |-> NoCode]
    ELSE IF Len(f.value.bin) < f.length
    THEN [ok |-> TRUE, code |-> NoCode]
    ELSE [ok |-> FALSE, code |-> LENGTH_CODE]

\* A validate that takes a falsy value for no value.
Validator_validateFalsy(cls, f) ==
    IF f.not_null /\ (ValueIsNull(f) \/ ~Truth(f.value))
    THEN [ok |-> FALSE, code |-> NULL_CODE]
    ELSE [ok |-> TRUE, code |-> NoCode]

\* field.validate(): validator.validate() of BoolValidator, VarbitValidator
Validator_validate(cls, f) ==
    IF f.not_null /\ ValueIsNull(f)
    THEN [ok |-> FALSE, code |-> NULL_CODE]
    ELSE IF ValueIsNull(f)
    THEN [ok |-> TRUE, code |-> NoCode]
    ELSE CASE cls = "Bool" ->
                IF f.value.tag = "bool" THEN [ok |-> TRUE, code |-> NoCode]
                ELSE [ok |-> FALSE, code |-> TYPE_CODE]
           [] cls = "Varbit" ->
                IF Len(f.value.bin) <= f.length
                THEN [ok |-> TRUE, code |-> NoCode]
                ELSE [ok |-> FALSE, code |-> LENGTH_CODE]

(***************************************************************************)
(* The validation machine: a Bool or Varbit field is given values, None,   *)
(* cleared, has not_null and length set as the tests set them, and is      *)
(* validated.                                                              *)
(***************************************************************************)
ValidationStart(cls, f) ==
    [cls |-> cls, f |-> f,
     last |-> [op |-> "init", ok |-> TRUE, code |-> NoCode, reps |-> 0]]

ValidationWorlds ==
    {ValidationStart("Bool", Bool__init__(n)) : n \in BOOLEAN}
        \cup {ValidationStart("Varbit", Varbit__init__(l, n)) :
                l \in 0..MaxBits, n \in BOOLEAN}

ValidationArgs(cls) ==
    {None} \cup
        (IF cls = "Bool"
         THEN {PyBool(TRUE), PyBool(FALSE), Num(1), Num(0), Str("0")}
         ELSE {Str(""), Str("1"), Str("10"), Str("101")})

Acted(op) == [op |-> op, ok |-> TRUE, code |-> NoCode, reps |-> 0]

\* field(value)
VlCall(value) ==
    /\ value \in ValidationArgs(vl.cls)
    /\ vl' = [vl EXCEPT !.f = IF vl.cls = "Bool"
                               THEN Bool__call__(vl.f, value).f
                               ELSE Bit__call__(vl.f, value).f,
                        !.last = Acted("call")]
    /\ UNCHANGED <<oneofVars, arrVars, astVars, csVars, sqVars, cwVars, fdVars, rgVars, thVars, cdcVars, tnVars, pgVars, plVars, hsVars, tgVars>>

\* field.clear()
VlClear ==
    /\ vl' = [vl EXCEPT !.f = Field_clear(@), !.last = Acted("clear")]
    /\ UNCHANGED <<oneofVars, arrVars, astVars, csVars, sqVars, cwVars, fdVars, rgVars, thVars, cdcVars, tnVars, pgVars, plVars, hsVars, tgVars>>

\* field.not_null = b
VlSetNotNull(b) ==
    /\ vl' = [vl EXCEPT !.f.not_null = b, !.last = Acted("not_null")]
    /\ UNCHANGED <<oneofVars, arrVars, astVars, csVars, sqVars, cwVars, fdVars, rgVars, thVars, cdcVars, tnVars, pgVars, plVars, hsVars, tgVars>>

\* field.length = n
VlSetLength(n) ==
    /\ vl.cls = "Varbit"
    /\ vl' = [vl EXCEPT !.f.length = n, !.last = Acted("length")]
    /\ UNCHANGED <<oneofVars, arrVars, astVars, csVars, sqVars, cwVars, fdVars, rgVars, thVars, cdcVars, tnVars, pgVars, plVars, hsVars, tgVars>>

\* field.validate()
VlValidate ==
    /\ LET r == Validator_validate(vl.cls, vl.f) IN
       vl' = [vl EXCEPT !.last = [op |-> "validate", ok |-> r.ok,
                                  code |-> r.code,
                                  reps |-> Min2(vl.last.reps + 1, MaxRepeat)]]
    /\ UNCHANGED <<oneofVars, arrVars, astVars, csVars, sqVars, cwVars, fdVars, rgVars, thVars, cdcVars, tnVars, pgVars, plVars, hsVars, tgVars>>

NextValidation ==
    \/ \E value \in ValidationArgs("Bool") \cup ValidationArgs("Varbit") :
         VlCall(value)
    \/ VlClear
    \/ \E b \in BOOLEAN : VlSetNotNull(b)
    \/ \E n \in 0..MaxBits : VlSetLength(n)
    \/ VlValidate

\* the value is one of the field's type: any bool for Bool, bits that fit
\* the length for Varbit
OfTheType(cls, f) ==
    IF cls = "Bool" THEN f.value.tag = "bool"
    ELSE Len(f.value.bin) <= f.length

\* C20: validate() of a not_null field is False for an unset value and for
\* None and True for every value of the type, False included; validate()
\* of a field without not_null is True for an unset value and for None,
\* whatever its length is
C20_ValidateNullability ==
    vl.last.op = "validate" =>
        /\ (vl.f.not_null /\ ValueIsNull(vl.f)) => ~vl.last.ok
        /\ (vl.f.not_null /\ ~ValueIsNull(vl.f) /\ OfTheType(vl.cls, vl.f))
                => vl.last.ok
        /\ (~vl.f.not_null /\ ValueIsNull(vl.f)) => vl.last.ok

\* a not_null Bool holding False has just validated
C20_Witness ==
    /\ vl.last.op = "validate"
    /\ vl.cls = "Bool"
    /\ vl.f.not_null
    /\ vl.f.value = PyBool(FALSE)
    /\ vl.last.ok

\* C21: the length of a bit string is checked by validate() and not by the
\* assignment: a Varbit(n) stores a bit string longer than n as given, the
\* validate() that follows is False with the code LENGTH_CODE, and with a
\* bit string of exactly n bits validate() is True, the first time and
\* every time it is repeated
C21_LengthCheckedOnValidate ==
    /\ [][\A value \in ValidationArgs("Varbit") \ {None} :
            (VlCall(value) /\ vl.cls = "Varbit") =>
                vl'.f.value = BitArray(value.s)]_vars
    /\ [](vl.cls = "Varbit" /\ vl.last.op = "validate"
            /\ ~ValueIsNull(vl.f) =>
            /\ Len(vl.f.value.bin) > vl.f.length =>
                    ~vl.last.ok /\ vl.last.code = LENGTH_CODE
            /\ Len(vl.f.value.bin) = vl.f.length => vl.last.ok)

\* a Varbit holding more bits than its length has failed validate() with
\* LENGTH_CODE
C21_Witness ==
    /\ vl.cls = "Varbit"
    /\ vl.last.op = "validate"
    /\ ~ValueIsNull(vl.f)
    /\ Len(vl.f.value.bin) > vl.f.length
    /\ ~vl.last.ok
    /\ vl.last.code = LENGTH_CODE

\* a Varbit holding exactly as many bits as its length, one at least, has
\* passed validate() several times in a row
C21_RepeatedValidate ==
    /\ vl.cls = "Varbit"
    /\ vl.last.op = "validate"
    /\ vl.last.reps = MaxRepeat
    /\ ~ValueIsNull(vl.f)
    /\ vl.f.length > 0
    /\ Len(vl.f.value.bin) = vl.f.length
    /\ vl.last.ok

(***************************************************************************)
(* Clients (cargo/clients.py).  A Postgres client keeps its hooks in       *)
(* `_events`, a dict of dicts of lists, and a psycopg2 connection in       *)
(* `_connection`.  A dict is a function over the keys of the model with    *)
(* Absent for a key it does not hold; `default` tells defaultdict(dict)    *)
(* from a plain dict.  A hook is the caller's code: what a call of it does *)
(* (return, raise KeyError, raise something else) is chosen by the         *)
(* environment at each call.  Hooks here do not call back into the client. *)
(***************************************************************************)
Callable(name) == [tag |-> "callable", name |-> name]
Absent == [tag |-> "absent"]
Dict(d) == [tag |-> "dict", d |-> d]

EVENTS == {"COMMIT", "ROLLBACK", "CONNECT", "CLOSE", "NEW CURSOR"}
LowerEvents == {"commit", "rollback", "connect", "close", "new cursor"}
WhenKeys == {"BEFORE", "AFTER", "before", "after"}
EventKeys == EVENTS \cup LowerEvents \cup {"Commit"}

\* str.upper() on the event names of the model
Upper(s) ==
    CASE s \in {"commit", "Commit", "COMMIT"} -> "COMMIT"
      [] s \in {"rollback", "ROLLBACK"} -> "ROLLBACK"
      [] s \in {"connect", "CONNECT"} -> "CONNECT"
      [] s \in {"close", "CLOSE"} -> "CLOSE"
      [] s \in {"new cursor", "NEW CURSOR"} -> "NEW CURSOR"

EmptyDict == Dict([e \in EventKeys |-> Absent])
\* {key: value}
Dict1(key, value) == Dict([e \in EventKeys |-> IF e = key THEN value ELSE Absent])

\* defaultdict(dict)
DefaultEvents == [default |-> TRUE, d |-> [w \in WhenKeys |-> Absent]]
\* the `events` option as documented:
\* {"before": {"commit": task}, "after": {"new cursor": task}}
DocumentedEvents(before, after) ==
    [default |-> FALSE,
     d |-> [w \in WhenKeys |->
                CASE w = "before" -> Dict1("commit", before)
                  [] w = "after" -> Dict1("new cursor", after)
                  [] OTHER -> Absent]]
\* the same option with the keys in the case the client looks up
UpperEvents(before, after) ==
    [default |-> FALSE,
     d |-> [w \in WhenKeys |->
                CASE w = "BEFORE" -> Dict1("COMMIT", before)
                  [] w = "AFTER" -> Dict1("NEW CURSOR", after)
                  [] OTHER -> Absent]]

\* Postgres.__init__: self._events = events or defaultdict(dict)
Postgres__init__(events) ==
    [_events |-> IF events = None THEN DefaultEvents ELSE events,
     _connection |-> None]

Conn(n) == [tag |-> "connection", n |-> n]
Cursor(n, conn) == [tag |-> "cursor", n |-> n, conn |-> conn]

KeyErr == [cls |-> "KeyError", what |-> "key"]
HookErr == [cls |-> "RuntimeError", what |-> "raised by the hook"]
OperationalErr == [cls |-> "OperationalError", what |-> "could not connect"]
InterfaceErr == [cls |-> "InterfaceError", what |-> "connection already closed"]
NoneAttrErr == [cls |-> "AttributeError", what |-> "NoneType has no attribute"]
HookOutcomes == {"returns", "KeyError", "RuntimeError"}

\* what a call leaves in the trace: a hook called, a psycopg2 operation done
Hook(when, event, task, arg, out) ==
    [kind |-> "hook", when |-> when, event |-> event, task |-> task,
     arg |-> arg, out |-> out]
Op(name, on) == [kind |-> "op", name |-> name, on |-> on]

\* A call in progress: the client, the connections psycopg2 has opened
\* (closed or not), the cursors created, the trace, the hooks called so
\* far, the exception raised and the value returned.
Call(client, conns, ncur) ==
    [pg |-> client, conns |-> conns, ncur |-> ncur, log |-> <<>>, k |-> 0,
     err |-> NoErr, ret |-> None]
Raise(c, e) == [c EXCEPT !.err = e]

\* BasePostgresClient._attach_event
Postgres_attach_event(c, when, event, task) ==
    LET up == Upper(event)
        outer == c.pg._events.d[when]
        created ==
            IF outer = Absent
            THEN IF c.pg._events.default
                 THEN [c EXCEPT !.pg._events.d[when] =
                                    Dict1(up, List(<<task>>))]
                 ELSE Raise(c, KeyErr)
            ELSE [c EXCEPT !.pg._events.d[when].d[up] = List(<<task>>)]
    IN  IF outer = Absent THEN created
        ELSE IF outer.d[up] = Absent THEN created
        ELSE IF outer.d[up].tag # "list" THEN Raise(c, NotIterableErr)
        ELSE IF \E i \in 1..Len(outer.d[up].items) :
                    outer.d[up].items[i] = task
        THEN c
        ELSE [c EXCEPT !.pg._events.d[when].d[up] =
                            List(Append(outer.d[up].items, task))]

\* the loop of _apply_event from hook i on; outs[k] is what the k-th hook
\* called does
RECURSIVE RunHooks(_, _, _, _, _, _, _)
RunHooks(c, items, i, when, event, arg, outs) ==
    IF i > Len(items) THEN c
    ELSE LET k == c.k + 1
             called == [c EXCEPT !.k = k,
                                 !.log = Append(@, Hook(when, event, items[i],
                                                        arg, outs[k]))]
         IN  CASE outs[k] = "returns" ->
                    RunHooks(called, items, i + 1, when, event, arg, outs)
               [] outs[k] = "KeyError" -> called
               [] OTHER -> Raise(called, HookErr)

\* An _apply_event that looks the event up as it is spelled.
Postgres_apply_eventCased(c, when, event, arg, outs) ==
    LET outer == c.pg._events.d[when]
    IN  IF c.err # NoErr THEN c
        ELSE IF outer = Absent
        THEN IF c.pg._events.default
             THEN [c EXCEPT !.pg._events.d[when] = EmptyDict]
             ELSE c
        ELSE IF outer.d[event] = Absent THEN c
        ELSE IF outer.d[event].tag # "list" THEN Raise(c, NotIterableErr)
        ELSE RunHooks(c, outer.d[event].items, 1, when, event, arg, outs)

\* BasePostgresClient._apply_event: a KeyError is passed over, whether the
\* lookup raised it or a hook did
Postgres_apply_event(c, when, event, arg, outs) ==
    LET up == Upper(event)
        outer == c.pg._events.d[when]
    IN  IF c.err # NoErr THEN c
        ELSE IF outer = Absent
        THEN IF c.pg._events.default
             THEN [c EXCEPT !.pg._events.d[when] = EmptyDict]
             ELSE c
        ELSE IF outer.d[up] = Absent THEN c
        ELSE IF outer.d[up].tag # "list" THEN Raise(c, NotIterableErr)
        ELSE RunHooks(c, outer.d[up].items, 1, when, up, arg, outs)

\* connection.closed
IsClosed(c, conn) == c.conns[conn.n]

\* psycopg2.connect: a new connection, or OperationalError
psycopg2_connect(c, ok) ==
    IF c.err # NoErr THEN c
    ELSE IF ok
    THEN [c EXCEPT !.conns = Append(@, FALSE),
                   !.pg._connection = Conn(Len(c.conns) + 1),
                   !.log = Append(@, Op("connect", Conn(Len(c.conns) + 1)))]
    ELSE Raise(c, OperationalErr)

\* Postgres.connect() with no dsn and no options
Postgres_connect(c, outs, ok) ==
    IF c.err # NoErr THEN c
    ELSE IF c.pg._connection = None \/ IsClosed(c, c.pg._connection)
    THEN Postgres_apply_event(
             psycopg2_connect(
                 Postgres_apply_event(c, "BEFORE", "connect", Absent, outs),
                 ok),
             "AFTER", "connect", Absent, outs)
    ELSE c

\* A connection property that connects on every read.
Postgres_connectionAlways(c, outs, ok) ==
    LET r == Postgres_apply_event(
                 psycopg2_connect(
                     Postgres_apply_event(c, "BEFORE", "connect", Absent, outs),
                     ok),
                 "AFTER", "connect", Absent, outs)
    IN  IF r.err # NoErr THEN r ELSE [r EXCEPT !.ret = r.pg._connection]

\* Postgres.connection
Postgres_connection(c, outs, ok) ==
    IF c.err # NoErr THEN c
    ELSE LET r == IF c.pg._connection = None \/ IsClosed(c, c.pg._connection)
                  THEN Postgres_connect(c, outs, ok)
                  ELSE c
         IN  IF r.err # NoErr THEN r ELSE [r EXCEPT !.ret = r.pg._connection]

\* self._connection.commit(), self._connection.rollback()
ConnectionDo(c, name) ==
    IF c.err # NoErr THEN c
    ELSE IF c.pg._connection = None THEN Raise(c, NoneAttrErr)
    ELSE IF IsClosed(c, c.pg._connection) THEN Raise(c, InterfaceErr)
    ELSE [c EXCEPT !.log = Append(@, Op(name, c.pg._connection))]

\* Postgres.commit, Postgres.rollback
Postgres_commit(c, name, outs) ==
    Postgres_apply_event(
        ConnectionDo(Postgres_apply_event(c, "BEFORE", name, Absent, outs),
                     name),
        "AFTER", name, Absent, outs)

\* try: self._connection.close() except AttributeError: pass
ConnectionClose(c) ==
    IF c.err # NoErr THEN c
    ELSE IF c.pg._connection = None THEN c
    ELSE [c EXCEPT !.conns[c.pg._connection.n] = TRUE,
                   !.log = Append(@, Op("close", c.pg._connection))]

\* Postgres.close
Postgres_close(c, outs) ==
    Postgres_apply_event(
        ConnectionClose(Postgres_apply_event(c, "BEFORE", "close", Absent,
                                             outs)),
        "AFTER", "close", Absent, outs)

\* self.connection.cursor(...)
ConnectionCursor(c) ==
    IF c.err # NoErr THEN c
    ELSE [c EXCEPT !.ncur = @ + 1,
                   !.ret = Cursor(c.ncur + 1, c.pg._connection),
                   !.log = Append(@, Op("cursor",
                                        Cursor(c.ncur + 1, c.pg._connection)))]

\* Postgres.cursor() with no model, no cursor_factory and no schema: the
\* comparison of the cursor factories reads self.connection first
Postgres_cursor(c, outs, ok) ==
    LET compared == Postgres_connection(c, outs, ok)
        before == Postgres_apply_event(compared, "BEFORE", "new cursor",
                                       Absent, outs)
        cursor == ConnectionCursor(Postgres_connection(before, outs, ok))
    IN  Postgres_apply_event(cursor, "AFTER", "new cursor", cursor.ret, outs)

(***************************************************************************)
(* The client machine: a Postgres client is built, without `events` or     *)
(* with the option in one of two spellings; hooks are attached with        *)
(* before() and after() under any spelling of the event name; commit,      *)
(* rollback, close, cursor() and the connection property are used.  Beside *)
(* the client the machine keeps what was asked of it: `hooks`, the tasks   *)
(* handed to before()/after() per event, in the order they were handed     *)
(* over.                                                                   *)
(***************************************************************************)
Tasks == {Callable("t1"), Callable("t2")}

\* the spellings an event name is given in
Spellings ==
    [e \in LowerEvents |->
        IF e = "commit" THEN {"commit", "Commit", "COMMIT"}
        ELSE {e} \cup {u \in EVENTS : Upper(e) = u}]

NoHooks == [w \in {"BEFORE", "AFTER"} |-> [e \in LowerEvents |-> <<>>]]

ClientStart(ctor, events) ==
    [pg |-> Postgres__init__(events), ctor |-> ctor, conns |-> <<>>,
     ncur |-> 0, nattach |-> 0, hooks |-> NoHooks,
     last |-> [op |-> "init", event |-> "", log |-> <<>>, err |-> NoErr,
               ret |-> None, was |-> None, wasClosed |-> FALSE]]

ClientWorlds ==
    {ClientStart("none", None),
     ClientStart("documented",
                 DocumentedEvents(Callable("t1"), Callable("t2"))),
     ClientStart("upper", UpperEvents(Callable("t1"), Callable("t2")))}

HookOuts == [1..MaxAttach -> HookOutcomes]

\* the state a call leaves behind
Called(op, event, c) ==
    [pg EXCEPT !.pg = c.pg, !.conns = c.conns, !.ncur = c.ncur,
               !.last = [op |-> op, event |-> event, log |-> c.log,
                         err |-> c.err,
                         ret |-> IF c.err = NoErr THEN c.ret ELSE None,
                         was |-> pg.pg._connection,
                         wasClosed |-> IF pg.pg._connection = None THEN FALSE
                                       ELSE pg.conns[pg.pg._connection.n]]]

Has(seq, x) == \E i \in 1..Len(seq) : seq[i] = x

\* client.before(name, task), client.after(name, task) for when = "BEFORE",
\* "AFTER"
Attach(when, e, name, task) ==
    /\ pg.nattach < MaxAttach
    /\ name \in Spellings[e]
    /\ LET c == Postgres_attach_event(Call(pg.pg, pg.conns, pg.ncur), when,
                                      name, task)
           done == Called("attach", e, c)
       IN  pg' = [done EXCEPT
                    !.nattach = @ + 1,
                    !.hooks[when][e] =
                        IF c.err = NoErr /\ ~Has(@, task)
                        THEN Append(@, task) ELSE @]
    /\ UNCHANGED <<oneofVars, arrVars, astVars, csVars, sqVars, cwVars, fdVars, rgVars, thVars, cdcVars, tnVars, vlVars, plVars, hsVars, tgVars>>

PgBefore(e, name, task) == Attach("BEFORE", e, name, task)

PgAfter(e, name, task) == Attach("AFTER", e, name, task)

\* client.commit()
PgCommit(outs) ==
    /\ pg' = Called("commit", "commit",
                    Postgres_commit(Call(pg.pg, pg.conns, pg.ncur), "commit",
                                    outs))
    /\ UNCHANGED <<oneofVars, arrVars, astVars, csVars, sqVars, cwVars, fdVars, rgVars, thVars, cdcVars, tnVars, vlVars, plVars, hsVars, tgVars>>

\* client.rollback()
PgRollback(outs) ==
    /\ pg' = Called("rollback", "rollback",
                    Postgres_commit(Call(pg.pg, pg.conns, pg.ncur),
                                    "rollback", outs))
    /\ UNCHANGED <<oneofVars, arrVars, astVars, csVars, sqVars, cwVars, fdVars, rgVars, thVars, cdcVars, tnVars, vlVars, plVars, hsVars, tgVars>>

\* client.close()
PgClose(outs) ==
    /\ pg' = Called("close", "close",
                    Postgres_close(Call(pg.pg, pg.conns, pg.ncur), outs))
    /\ UNCHANGED <<oneofVars, arrVars, astVars, csVars, sqVars, cwVars, fdVars, rgVars, thVars, cdcVars, tnVars, vlVars, plVars, hsVars, tgVars>>

\* psycopg2 opens at most MaxConns connections; past that it refuses
CanConnect(ok) == ok => Len(pg.conns) < MaxConns

\* client.cursor()
PgCursor(outs, ok) ==
    /\ pg.ncur < MaxCursors
    /\ CanConnect(ok)
    /\ pg' = Called("cursor", "new cursor",
                    Postgres_cursor(Call(pg.pg, pg.conns, pg.ncur), outs, ok))
    /\ UNCHANGED <<oneofVars, arrVars, astVars, csVars, sqVars, cwVars, fdVars, rgVars, thVars, cdcVars, tnVars, vlVars, plVars, hsVars, tgVars>>

\* client.connection
PgConnection(outs, ok) ==
    /\ CanConnect(ok)
    /\ pg' = Called("connection", "connect",
                    Postgres_connection(Call(pg.pg, pg.conns, pg.ncur), outs,
                                        ok))
    /\ UNCHANGED <<oneofVars, arrVars, astVars, csVars, sqVars, cwVars, fdVars, rgVars, thVars, cdcVars, tnVars, vlVars, plVars, hsVars, tgVars>>

NextClient ==
    \/ \E e \in LowerEvents, name \in EventKeys, task \in Tasks :
         PgBefore(e, name, task)
    \/ \E e \in LowerEvents, name \in EventKeys, task \in Tasks :
         PgAfter(e, name, task)
    \/ \E outs \in HookOuts : PgCommit(outs)
    \/ \E outs \in HookOuts : PgRollback(outs)
    \/ \E outs \in HookOuts : PgClose(outs)
    \/ \E outs \in HookOuts, ok \in BOOLEAN : PgCursor(outs, ok)
    \/ \E outs \in HookOuts, ok \in BOOLEAN : PgConnection(outs, ok)

\* every hook of the trace returned
AllReturned(log) ==
    \A i \in 1..Len(log) : log[i].kind = "hook" => log[i].out = "returns"

\* the trace without what the hooks did: which task, or which operation
Who(entry) ==
    IF entry.kind = "hook"
    THEN [kind |-> "hook", when |-> entry.when, task |-> entry.task]
    ELSE [kind |-> "op", name |-> entry.name]
Trace(log) == [i \in 1..Len(log) |-> Who(log[i])]
\* the entries of the trace that belong to the event; an operation belongs
\* to the event it is named after
RECURSIVE OfEvent(_, _)
OfEvent(log, e) ==
    IF log = <<>> THEN <<>>
    ELSE LET mine == IF Head(log).kind = "hook"
                     THEN Head(log).event = Upper(e)
                     ELSE Head(log).name = (IF e = "new cursor" THEN "cursor"
                                            ELSE e)
         IN  (IF mine THEN <<Head(log)>> ELSE <<>>) \o OfEvent(Tail(log), e)

HookCalls(when, tasks) ==
    [i \in 1..Len(tasks) |-> [kind |-> "hook", when |-> when,
                              task |-> tasks[i]]]
\* what the call should have done: the before hooks as handed over, the
\* operation, the after hooks as handed over
Expected(e, done, before, after) ==
    HookCalls("BEFORE", before)
        \o (IF done THEN <<[kind |-> "op", name |-> IF e = "new cursor"
                                                    THEN "cursor" ELSE e]>>
            ELSE <<>>)
        \o HookCalls("AFTER", after)

\* close() on a client that has no connection has nothing to close
Operated == ~(pg.last.op = "close" /\ pg.last.was = None)

\* C22: when commit, rollback or close returns and no hook raised, the
\* hooks attached with before() for the event ran first, in the order
\* they were attached, then the connection's operation, then the hooks
\* attached with after(), in the order they were attached, whatever the
\* case the event name was spelled in; a hook attached with
\* after("new cursor") is called with the cursor that cursor() has just
\* created and returns
C22_HooksAroundOperation ==
    (pg.last.err = NoErr /\ AllReturned(pg.last.log)) =>
        /\ pg.last.op \in {"commit", "rollback", "close"} =>
                Trace(pg.last.log) =
                    Expected(pg.last.event, Operated,
                             pg.hooks["BEFORE"][pg.last.event],
                             pg.hooks["AFTER"][pg.last.event])
        /\ pg.last.op = "cursor" =>
                /\ Trace(OfEvent(pg.last.log, "new cursor")) =
                        Expected("new cursor", TRUE,
                                 pg.hooks["BEFORE"]["new cursor"],
                                 pg.hooks["AFTER"]["new cursor"])
                /\ pg.last.ret = Cursor(pg.ncur, pg.pg._connection)
                /\ \A i \in 1..Len(pg.last.log) :
                        (pg.last.log[i].kind = "hook"
                            /\ pg.last.log[i].event = "NEW CURSOR"
                            /\ pg.last.log[i].when = "AFTER") =>
                            pg.last.log[i].arg = pg.last.ret

\* a commit has run two before hooks in the order they were attached,
\* then the commit
C22_Witness ==
    /\ pg.last.op = "commit"
    /\ pg.last.err = NoErr
    /\ AllReturned(pg.last.log)
    /\ Len(pg.hooks["BEFORE"]["commit"]) = 2
    /\ Trace(pg.last.log) =
            Expected("commit", TRUE, pg.hooks["BEFORE"]["commit"], <<>>)

\* a rollback has run a before hook, the rollback and an after hook
C22_BothSides ==
    /\ pg.last.op = "rollback"
    /\ pg.last.err = NoErr
    /\ AllReturned(pg.last.log)
    /\ Len(pg.last.log) = 3
    /\ pg.last.log[1].kind = "hook"
    /\ pg.last.log[2].kind = "op"
    /\ pg.last.log[3].kind = "hook"

\* a cursor() has handed the cursor it created to an after hook
C22_CursorHanded ==
    /\ pg.last.op = "cursor"
    /\ pg.last.err = NoErr
    /\ pg.ncur = MaxCursors
    /\ \E i \in 1..Len(pg.last.log) :
            /\ pg.last.log[i].kind = "hook"
            /\ pg.last.log[i].when = "AFTER"
            /\ pg.last.log[i].event = "NEW CURSOR"
            /\ pg.last.log[i].arg = pg.last.ret

\* the tasks the `events` option named for the event, as the documented
\* form gives them: one before commit, one after new cursor
OptionHooks(when, e) ==
    IF pg.ctor = "none" THEN <<>>
    ELSE IF when = "BEFORE" /\ e = "commit" THEN <<Callable("t1")>>
    ELSE IF when = "AFTER" /\ e = "new cursor" THEN <<Callable("t2")>>
    ELSE <<>>

\* the option's tasks, then the tasks attached later that are not among them
RECURSIVE Without(_, _)
Without(tasks, given) ==
    IF tasks = <<>> THEN <<>>
    ELSE (IF Has(given, Head(tasks)) THEN <<>> ELSE <<Head(tasks)>>)
            \o Without(Tail(tasks), given)
AllHooks(when, e) ==
    OptionHooks(when, e) \o Without(pg.hooks[when][e], OptionHooks(when, e))

\* C23: on a client built with
\* events={"before": {"commit": t1}, "after": {"new cursor": t2}}, a
\* commit that returns has run t1 before the connection's commit, and a
\* cursor() that returns has called t2 with the new cursor, as if t1 and t2
\* had been attached with before("commit", t1) and after("new cursor", t2)
C23_OptionHooksFire ==
    (pg.ctor = "documented" /\ pg.last.err = NoErr
        /\ AllReturned(pg.last.log)) =>
        /\ pg.last.op = "commit" =>
                Trace(pg.last.log) =
                    Expected("commit", TRUE, AllHooks("BEFORE", "commit"),
                             AllHooks("AFTER", "commit"))
        /\ pg.last.op = "cursor" =>
                Trace(OfEvent(pg.last.log, "new cursor")) =
                    Expected("new cursor", TRUE,
                             AllHooks("BEFORE", "new cursor"),
                             AllHooks("AFTER", "new cursor"))

\* what the code does with the option: given in lower case as documented,
\* no call ever runs a task of it; given in upper case, the commit and the
\* cursor() it names raise TypeError, the task being no list
C23_OptionHooksNeverRun ==
    /\ pg.ctor = "documented" =>
            \A i \in 1..Len(pg.last.log) : pg.last.log[i].kind # "hook"
    /\ (pg.ctor = "upper" /\ pg.last.op = "commit") =>
            pg.last.err \in {NotIterableErr, NoneAttrErr}
    /\ (pg.ctor = "upper" /\ pg.last.op = "cursor"
            /\ Len(pg.last.log) > 0
            /\ pg.last.log[Len(pg.last.log)].kind = "op"
            /\ pg.last.log[Len(pg.last.log)].name = "cursor") =>
            pg.last.err = NotIterableErr

\* the psycopg2.connect calls of the trace
RECURSIVE Connects(_)
Connects(log) ==
    IF log = <<>> THEN 0
    ELSE (IF Head(log).kind = "op" /\ Head(log).name = "connect" THEN 1 ELSE 0)
            + Connects(Tail(log))

HadOpenConnection == pg.last.was # None /\ ~pg.last.wasClosed

\* C24: reading `connection` while the client holds an open connection
\* returns that connection, opens nothing and calls no hook; reading it
\* while there is none, or a closed one, opens exactly one new connection
\* and returns it, or raises; the connection returned is never closed; and
\* a close() that returned leaves no open connection, so that the next
\* read connects again
C24_ConnectionOnDemand ==
    /\ pg.last.op = "connection" =>
        /\ HadOpenConnection =>
                /\ pg.last.err = NoErr
                /\ pg.last.ret = pg.last.was
                /\ pg.last.log = <<>>
        /\ (~HadOpenConnection /\ pg.last.err = NoErr) =>
                /\ Connects(pg.last.log) = 1
                /\ pg.last.ret = Conn(Len(pg.conns))
                /\ pg.last.ret # pg.last.was
        /\ pg.last.err = NoErr =>
                /\ pg.last.ret = pg.pg._connection
                /\ pg.last.ret # None
                /\ ~pg.conns[pg.last.ret.n]
    /\ (pg.last.op = "close" /\ pg.last.err = NoErr) =>
            \/ pg.pg._connection = None
            \/ pg.conns[pg.pg._connection.n]

\* the connection was closed with close(); the read that followed opened
\* a second connection and returned it
C24_Witness ==
    /\ pg.last.op = "connection"
    /\ pg.last.err = NoErr
    /\ pg.last.wasClosed
    /\ pg.last.ret = Conn(2)
    /\ pg.conns = <<TRUE, FALSE>>

\* a read has returned the open connection the client already had
C24_Reused ==
    /\ pg.last.op = "connection"
    /\ HadOpenConnection
    /\ pg.last.ret = pg.last.was
    /\ \E w \in {"BEFORE", "AFTER"} : Len(pg.hooks[w]["connect"]) > 0

\* the hooks of the trace that did not return
Failed(log) == {i \in 1..Len(log) : log[i].kind = "hook" /\ log[i].out # "returns"}

IsGuarded == pg.last.op \in {"commit", "rollback", "close"}

\* C29: when commit, rollback or close fires its events, either every hook
\* attached for the event is called exactly once, in the order of
\* attachment and with a task attached twice called once, or a hook has
\* raised: then the call raises too, no hook is called after the failing
\* one, and if it was a before hook the connection's operation is not done
C29_AllHooksOrRaise ==
    IsGuarded =>
        /\ (Failed(pg.last.log) = {} /\ pg.last.err = NoErr) =>
                Trace(pg.last.log) =
                    Expected(pg.last.event, Operated,
                             pg.hooks["BEFORE"][pg.last.event],
                             pg.hooks["AFTER"][pg.last.event])
        /\ \A i \in Failed(pg.last.log) :
                /\ pg.last.err # NoErr
                /\ i = Len(pg.last.log)
                /\ pg.last.log[i].when = "BEFORE" =>
                        \A j \in 1..Len(pg.last.log) :
                            pg.last.log[j].kind # "op"

\* what the code does: C29 with the hooks that raise KeyError left aside.
\* A hook that raises KeyError ends the loop of _apply_event without an
\* exception: the hooks after it are skipped and the call goes on.
C29_AllHooksOrRaiseButKeyError ==
    IsGuarded =>
        /\ (Failed(pg.last.log) = {} /\ pg.last.err = NoErr) =>
                Trace(pg.last.log) =
                    Expected(pg.last.event, Operated,
                             pg.hooks["BEFORE"][pg.last.event],
                             pg.hooks["AFTER"][pg.last.event])
        /\ \A i \in Failed(pg.last.log) :
                pg.last.log[i].out # "KeyError" =>
                    /\ pg.last.err = HookErr
                    /\ i = Len(pg.last.log)
                    /\ pg.last.log[i].when = "BEFORE" =>
                            \A j \in 1..Len(pg.last.log) :
                                pg.last.log[j].kind # "op"
        /\ \A i, j \in 1..Len(pg.last.log) :
                (i # j /\ pg.last.log[i].kind = "hook"
                    /\ pg.last.log[j].kind = "hook"
                    /\ pg.last.log[i].when = pg.last.log[j].when) =>
                    pg.last.log[i].task # pg.last.log[j].task

\* a before hook of commit raised KeyError; the second before hook was
\* skipped, the commit was done and commit() returned
C29_Swallowed ==
    /\ pg.last.op = "commit"
    /\ pg.last.err = NoErr
    /\ Len(pg.hooks["BEFORE"]["commit"]) = 2
    /\ Len(pg.last.log) = 2
    /\ pg.last.log[1].kind = "hook"
    /\ pg.last.log[1].out = "KeyError"
    /\ pg.last.log[2].kind = "op"

(***************************************************************************)
(* get_type_OID on a client or on a pool (cargo/clients.py).  A pool hands *)
(* out at most maxconn connections; `out` counts the ones handed out and   *)
(* not given back.  Creating the cursor and running the catalog query are  *)
(* psycopg2's: either may raise.                                           *)
(***************************************************************************)
PoolErr == [cls |-> "PoolError", what |-> "connection pool exhausted"]
QueryFails == {"nothing", "cursor", "execute"}

\* Postgres(), PostgresPool(minconn, maxconn)
PostgresPool__init__(kind, maxconn) ==
    [kind |-> kind, maxconn |-> maxconn, out |-> 0]

\* Postgres.get returns the client itself; PostgresPool.get wraps
\* self.pool.getconn(), which raises when every connection is out
Client_get(p) ==
    IF p.kind = "pool"
    THEN IF p.out < p.maxconn
         THEN [p |-> [p EXCEPT !.out = @ + 1], err |-> NoErr]
         ELSE [p |-> p, err |-> PoolErr]
    ELSE [p |-> p, err |-> NoErr]

\* Postgres.put does nothing; PostgresPool.put is self.pool.putconn(...)
Client_put(p) ==
    IF p.kind = "pool" THEN [p EXCEPT !.out = @ - 1] ELSE p

Outcome4(p, err, ret, gets, puts) ==
    [p |-> p, err |-> err, ret |-> ret, gets |-> gets, puts |-> puts]

\* BasePostgresClient.get_type_OID, statement by statement: get, cursor,
\* execute and fetchall, put, return
Client_get_type_OID(p, db, typname, fails) ==
    LET got == Client_get(p)
    IN  IF got.err # NoErr THEN Outcome4(got.p, got.err, None, 0, 0)
        ELSE IF fails = "cursor"
        THEN Outcome4(got.p, InterfaceErr, None, 1, 0)
        ELSE IF fails = "execute"
        THEN Outcome4(got.p, OperationalErr, None, 1, 0)
        ELSE Outcome4(Client_put(got.p), NoErr,
                      Tuple(get_type_OID(db, typname)), 1, 1)

\* PostgresPool.close: closeall(); the next use builds a new pool
PostgresPool_close(p) == [p EXCEPT !.out = 0]

(***************************************************************************)
(* The pool machine: type identifiers are looked up on a client or on a    *)
(* pool, again and again, and the pool is closed now and then.             *)
(***************************************************************************)
PoolStart(p, db) ==
    [p |-> p, db |-> db, calls |-> 0,
     last |-> [op |-> "init", typname |-> None, err |-> NoErr, ret |-> None,
               gets |-> 0, puts |-> 0]]

PoolWorlds ==
    {PoolStart(PostgresPool__init__(kind, maxconn), db) :
        kind \in {"client", "pool"}, maxconn \in 1..MaxPool,
        db \in Databases}

\* client.get_type_OID(typname)
PlGetTypeOID(typname, fails) ==
    /\ pl.calls < MaxLookups
    /\ LET r == Client_get_type_OID(pl.p, pl.db, typname, fails)
       IN  pl' = [pl EXCEPT !.p = r.p, !.calls = @ + 1,
                            !.last = [op |-> "get_type_OID",
                                      typname |-> typname, err |-> r.err,
                                      ret |-> r.ret, gets |-> r.gets,
                                      puts |-> r.puts]]
    /\ UNCHANGED <<oneofVars, arrVars, astVars, csVars, sqVars, cwVars, fdVars, rgVars, thVars, cdcVars, tnVars, vlVars, pgVars, hsVars, tgVars>>

\* pool.close()
PlClose ==
    /\ pl.p.kind = "pool"
    /\ pl.last.op # "close"
    /\ pl' = [pl EXCEPT !.p = PostgresPool_close(@),
                        !.last = [op |-> "close", typname |-> None,
                                  err |-> NoErr, ret |-> None, gets |-> 0,
                                  puts |-> 0]]
    /\ UNCHANGED <<oneofVars, arrVars, astVars, csVars, sqVars, cwVars, fdVars, rgVars, thVars, cdcVars, tnVars, vlVars, pgVars, hsVars, tgVars>>

NextPool ==
    \/ \E typname \in DbNames, fails \in QueryFails :
         PlGetTypeOID(typname, fails)
    \/ PlClose

\* C28: every get_type_OID call gives back, with one put(), the connection
\* it took with get(), whether the query succeeded or the cursor or the
\* query raised; a pool therefore has no connection out between calls and
\* no get_type_OID call finds it exhausted
C28_ConnectionGivenBack ==
    /\ pl.p.out = 0
    /\ pl.last.op = "get_type_OID" =>
            /\ pl.last.gets = 1
            /\ pl.last.puts = 1
            /\ pl.last.err # PoolErr

\* what the code does: the connection is given back when the query
\* succeeds, and only then
C28_GivenBackOnSuccess ==
    pl.last.op = "get_type_OID" =>
        /\ pl.last.err = NoErr => (pl.last.gets = 1 /\ pl.last.puts = 1)
        /\ pl.last.err \in {InterfaceErr, OperationalErr} =>
                (pl.last.gets = 1 /\ pl.last.puts = 0)
        /\ pl.last.err = PoolErr => pl.p.out = pl.p.maxconn

\* a pool of two connections is exhausted: both were taken by lookups that
\* raised, and a third lookup could not get one
C28_Exhausted ==
    /\ pl.p.kind = "pool"
    /\ pl.p.maxconn = 2
    /\ pl.last.op = "get_type_OID"
    /\ pl.last.err = PoolErr

(***************************************************************************)
(* Hashers (bloom/fields/extras.py).  The password context is passlib's or *)
(* argon2's: its verify tells whether the hash is the value's, passlib by  *)
(* returning a bool or raising ValueError on what is no hash, argon2 by    *)
(* returning True or raising VerificationError.                            *)
(***************************************************************************)
IncorrectPasswordErr ==
    [cls |-> "IncorrectPasswordError",
     what |-> "The given password is incorrect."]

\* Hasher.__init__, Argon2Hasher.__init__
Hasher__init__(scheme, raises) == [scheme |-> scheme, raises |-> raises]

\* Hasher.hash
Hasher_hash(h, value) == Normalized("hash", value)

\* Hasher._verify inside the try of verify: the context's answer, False
\* when it raised VerificationError or ValueError
Hasher_verified(h, value, hash) ==
    Hasher_is_hash(hash) /\ hash = Normalized("hash", value)

\* Hasher.verify: _raise_if(self.raises) is called on both paths, after
\* the verification whatever its answer
Hasher_verify(h, value, hash) ==
    IF hash = None \/ value = None
    THEN IF h.raises THEN [ret |-> FALSE, err |-> IncorrectPasswordErr]
         ELSE [ret |-> FALSE, err |-> NoErr]
    ELSE IF h.raises THEN [ret |-> FALSE, err |-> IncorrectPasswordErr]
    ELSE [ret |-> Hasher_verified(h, value, hash), err |-> NoErr]

(***************************************************************************)
(* The hasher machine: a hasher hashes passwords and verifies candidates   *)
(* against the hash it keeps, against None and against what is no hash.    *)
(***************************************************************************)
Passwords == {Str("a"), Str("b"), Str("z")}

HasherStart(h) ==
    [h |-> h, stored |-> None,
     last |-> [op |-> "init", value |-> None, hash |-> None, ret |-> FALSE,
               err |-> NoErr]]

HasherWorlds ==
    {HasherStart(Hasher__init__(scheme, raises)) :
        scheme \in {"argon2i", "bcrypt"}, raises \in BOOLEAN}

\* stored = hasher.hash(value)
HsHash(value) ==
    /\ hs' = [hs EXCEPT !.stored = Hasher_hash(hs.h, value),
                        !.last = [op |-> "hash", value |-> value,
                                  hash |-> Hasher_hash(hs.h, value),
                                  ret |-> FALSE, err |-> NoErr]]
    /\ UNCHANGED <<oneofVars, arrVars, astVars, csVars, sqVars, cwVars, fdVars, rgVars, thVars, cdcVars, tnVars, vlVars, pgVars, plVars, tgVars>>

\* hasher.verify(value, hash)
HsVerify(value, hash) ==
    /\ hash \in {hs.stored, None, Str("a")}
    /\ LET r == Hasher_verify(hs.h, value, hash)
       IN  hs' = [hs EXCEPT !.last = [op |-> "verify", value |-> value,
                                      hash |-> hash, ret |-> r.ret,
                                      err |-> r.err]]
    /\ UNCHANGED <<oneofVars, arrVars, astVars, csVars, sqVars, cwVars, fdVars, rgVars, thVars, cdcVars, tnVars, vlVars, pgVars, plVars, tgVars>>

NextHasher ==
    \/ \E value \in Passwords : HsHash(value)
    \/ \E value \in Passwords \cup {None},
          hash \in {hs.stored, None, Str("a")} : HsVerify(value, hash)

\* the value verified is the one the hash was made of
Matches ==
    /\ hs.last.value # None
    /\ hs.last.hash # None
    /\ hs.last.hash = Hasher_hash(hs.h, hs.last.value)

\* C25: verify(value, hash) returns True when the value is the one the
\* hash was made of and False when it is not; it raises
\* IncorrectPasswordError only when the value does not match (or value or
\* hash is None) on a hasher built with raises=True, and never for the
\* correct password
C25_VerifyRaisesOnlyOnFailure ==
    hs.last.op = "verify" =>
        /\ Matches => (hs.last.err = NoErr /\ hs.last.ret)
        /\ (~Matches /\ ~hs.h.raises) => (hs.last.err = NoErr /\ ~hs.last.ret)
        /\ hs.last.err # NoErr => (~Matches /\ hs.h.raises)

\* what the code does: without raises, verify returns whether the value
\* matches; with raises=True every verify raises, the correct password's
\* too
C25_RaisesAlways ==
    hs.last.op = "verify" =>
        /\ ~hs.h.raises => (hs.last.err = NoErr /\ hs.last.ret = Matches)
        /\ hs.h.raises => hs.last.err = IncorrectPasswordErr

\* the correct password was verified on a hasher built with raises=True
C25_CorrectRefused ==
    /\ hs.last.op = "verify"
    /\ hs.h.raises
    /\ Matches
    /\ hs.last.err = IncorrectPasswordErr

(***************************************************************************)
(* The tag machine: an Array field of a OneOf element, with or without an  *)
(* explicit type name, is given values, appended to, cleared, and bound to *)
(* a table and a column through its table and field_name setters, in any   *)
(* order.                                                                  *)
(***************************************************************************)
\* Array.table = value
Array_set_table(f, value) == [f EXCEPT !.type.table = value]
\* Array.field_name = value
Array_set_field_name(f, value) == [f EXCEPT !.type.field_name = value]

TagStart(n) ==
    [f |-> Array__init__(OneOf__init__(<<"a", "b">>, n), 1, 0, 0 - 1),
     last |-> [op |-> "init", err |-> NoErr, made |-> FALSE]]

TagWorlds == {TagStart(n) : n \in ExplicitNames}

TagValues == {None, List(<<>>), List(<<Str("a")>>), List(<<Str("z")>>)}
TagItems == {Str("a"), Str("z"), List(<<Str("b")>>)}

\* the state an operation leaves; `made` tells that it stored a list in a
\* field that held none, or stored a whole new list
TagStep(op, r, whole) ==
    /\ Fits(r.f)
    /\ tg' = [f |-> r.f,
              last |-> [op |-> op, err |-> r.err,
                        made |-> /\ HoldsList(r.f)
                                 /\ (whole /\ r.err = NoErr)
                                        \/ ~HoldsList(tg.f)]]
    /\ UNCHANGED <<oneofVars, arrVars, astVars, csVars, sqVars, cwVars, fdVars, rgVars, thVars, cdcVars, tnVars, vlVars, pgVars, plVars, hsVars>>

TgCall(value) == TagStep("call", Array__call__(tg.f, value), TRUE)
TgAppend(value) == TagStep("append", Array_append(tg.f, value), FALSE)
TgInsert(value) == TagStep("insert", Array_insert(tg.f, 0, value), FALSE)
TgExtend(value) == TagStep("extend", Array_extend(tg.f, value), FALSE)
TgClear == TagStep("clear", [f |-> Array_clear(tg.f), err |-> NoErr], FALSE)
TgSetTable(table) ==
    TagStep("table", [f |-> Array_set_table(tg.f, table), err |-> NoErr],
            FALSE)
TgSetFieldName(column) ==
    TagStep("field_name",
            [f |-> Array_set_field_name(tg.f, column), err |-> NoErr], FALSE)

NextTag ==
    \/ \E value \in TagValues : TgCall(value)
    \/ \E value \in TagItems : TgAppend(value)
    \/ \E value \in TagItems : TgInsert(value)
    \/ \E value \in TagItems : TgExtend(value)
    \/ TgClear
    \/ \E table \in TableNames : TgSetTable(table)
    \/ \E column \in ColumnNames : TgSetFieldName(column)

\* C30: whenever the Array field holds a list, the element type the list
\* is tagged with is the element type name of the field as it is now, also
\* after the field was bound to a table and a column with the value in it,
\* and also when append, insert or extend made the list on an unset field
C30_TagIsCurrentTypeName ==
    HoldsList(tg.f) => tg.f.value.cargotype = Array_get_type_name(tg.f)

\* what the code does: the list is tagged when it is made, with the name
\* the element type has then; the tag is the current name as long as the
\* element field has an explicit type name or is not bound anew
C30_TagIsTypeNameWhenMade ==
    /\ (HoldsList(tg.f) /\ tg.last.made) =>
            tg.f.value.cargotype = Array_get_type_name(tg.f)
    /\ (HoldsList(tg.f) /\ HasExplicitName(tg.f.type)) =>
            tg.f.value.cargotype = Array_get_type_name(tg.f)

\* a field holding a list was given its column: the list still carries
\* the name the element type had before
C30_StaleTag ==
    /\ tg.last.op = "field_name"
    /\ HoldsList(tg.f)
    /\ Len(StoredItems(tg.f)) > 0
    /\ tg.f.value.cargotype # Array_get_type_name(tg.f)

(***************************************************************************)
(* The specifications: one machine runs, the others stand still.           *)
(***************************************************************************)
OneOfIdle == OneOf__init__(<<"cat">>, None)
ArrayIdle == Array__init__(ElementField, 1, 0, 0 - 1)
AstIdle == AstLeaf(Safe("1=1"))
CaseIdle == CaseStart(<<>>, None, None, FALSE)
SetOpsIdle == SetOpsStart(Select(<<"SELECT", "1 as foo">>, <<>>))
CopyIdle == CopyStart(Alloc(<<>>, Object("Bit", Bit__init__(2))))
FieldIdle == FieldStart("Bit")
RegisterIdle ==
    RegStart(Shared(<<OneOf__init__(<<"cat">>, Str("mood"))>>,
                    [typname \in DbNames |-> 0]))

ThreadsIdle == ThreadsStart(RegisterIdle.sh)

CodecIdle == CodecStart("Bit", BitArray("1"))

NamingIdle == NamingStart(None, None)

ValidationIdle == ValidationStart("Bool", Bool__init__(FALSE))

ClientIdle == ClientStart("none", None)

PoolIdle == PoolStart(PostgresPool__init__("client", 1), [typname \in DbNames |-> 0])

HasherIdle == HasherStart(Hasher__init__("bcrypt", FALSE))

TagIdle == TagStart(None)

InitOneOf ==
    /\ oneof \in OneOfFields
    /\ olast = NoCall
    /\ arr = ArrayIdle
    /\ alast = NoOp
    /\ ast = AstIdle
    /\ cs = CaseIdle
    /\ sq = SetOpsIdle
    /\ cw = CopyIdle
    /\ fd = FieldIdle
    /\ rg = RegisterIdle
    /\ th = ThreadsIdle
    /\ cdc = CodecIdle
    /\ tn = NamingIdle
    /\ vl = ValidationIdle
    /\ pg = ClientIdle
    /\ pl = PoolIdle
    /\ hs = HasherIdle
    /\ tg = TagIdle

SpecOneOf == InitOneOf /\ [][NextOneOf]_vars

InitArray ==
    /\ arr \in ArrayFields
    /\ alast = NoOp
    /\ oneof = OneOfIdle
    /\ olast = NoCall
    /\ ast = AstIdle
    /\ cs = CaseIdle
    /\ sq = SetOpsIdle
    /\ cw = CopyIdle
    /\ fd = FieldIdle
    /\ rg = RegisterIdle
    /\ th = ThreadsIdle
    /\ cdc = CodecIdle
    /\ tn = NamingIdle
    /\ vl = ValidationIdle
    /\ pg = ClientIdle
    /\ pl = PoolIdle
    /\ hs = HasherIdle
    /\ tg = TagIdle

SpecArray == InitArray /\ [][NextArray]_vars

InitAst ==
    /\ ast \in AstTrees
    /\ oneof = OneOfIdle
    /\ olast = NoCall
    /\ arr = ArrayIdle
    /\ alast = NoOp
    /\ cs = CaseIdle
    /\ sq = SetOpsIdle
    /\ cw = CopyIdle
    /\ fd = FieldIdle
    /\ rg = RegisterIdle
    /\ th = ThreadsIdle
    /\ cdc = CodecIdle
    /\ tn = NamingIdle
    /\ vl = ValidationIdle
    /\ pg = ClientIdle
    /\ pl = PoolIdle
    /\ hs = HasherIdle
    /\ tg = TagIdle

SpecAst == InitAst /\ [][NextAst]_vars

InitCase ==
    /\ cs \in CaseBuilders
    /\ oneof = OneOfIdle
    /\ olast = NoCall
    /\ arr = ArrayIdle
    /\ alast = NoOp
    /\ ast = AstIdle
    /\ sq = SetOpsIdle
    /\ cw = CopyIdle
    /\ fd = FieldIdle
    /\ rg = RegisterIdle
    /\ th = ThreadsIdle
    /\ cdc = CodecIdle
    /\ tn = NamingIdle
    /\ vl = ValidationIdle
    /\ pg = ClientIdle
    /\ pl = PoolIdle
    /\ hs = HasherIdle
    /\ tg = TagIdle

SpecCase == InitCase /\ [][NextCase]_vars

InitSetOps ==
    /\ sq \in SetOpsChains
    /\ oneof = OneOfIdle
    /\ olast = NoCall
    /\ arr = ArrayIdle
    /\ alast = NoOp
    /\ ast = AstIdle
    /\ cs = CaseIdle
    /\ cw = CopyIdle
    /\ fd = FieldIdle
    /\ rg = RegisterIdle
    /\ th = ThreadsIdle
    /\ cdc = CodecIdle
    /\ tn = NamingIdle
    /\ vl = ValidationIdle
    /\ pg = ClientIdle
    /\ pl = PoolIdle
    /\ hs = HasherIdle
    /\ tg = TagIdle

SpecSetOps == InitSetOps /\ [][NextSetOps]_vars

InitCopy ==
    /\ cw \in CopyWorlds
    /\ oneof = OneOfIdle
    /\ olast = NoCall
    /\ arr = ArrayIdle
    /\ alast = NoOp
    /\ ast = AstIdle
    /\ cs = CaseIdle
    /\ sq = SetOpsIdle
    /\ fd = FieldIdle
    /\ rg = RegisterIdle
    /\ th = ThreadsIdle
    /\ cdc = CodecIdle
    /\ tn = NamingIdle
    /\ vl = ValidationIdle
    /\ pg = ClientIdle
    /\ pl = PoolIdle
    /\ hs = HasherIdle
    /\ tg = TagIdle

SpecCopy == InitCopy /\ [][NextCopy]_vars

InitField ==
    /\ fd \in FieldWorlds
    /\ oneof = OneOfIdle
    /\ olast = NoCall
    /\ arr = ArrayIdle
    /\ alast = NoOp
    /\ ast = AstIdle
    /\ cs = CaseIdle
    /\ sq = SetOpsIdle
    /\ cw = CopyIdle
    /\ rg = RegisterIdle
    /\ th = ThreadsIdle
    /\ cdc = CodecIdle
    /\ tn = NamingIdle
    /\ vl = ValidationIdle
    /\ pg = ClientIdle
    /\ pl = PoolIdle
    /\ hs = HasherIdle
    /\ tg = TagIdle

SpecField == InitField /\ [][NextField]_vars

InitRegister ==
    /\ rg \in RegWorlds
    /\ oneof = OneOfIdle
    /\ olast = NoCall
    /\ arr = ArrayIdle
    /\ alast = NoOp
    /\ ast = AstIdle
    /\ cs = CaseIdle
    /\ sq = SetOpsIdle
    /\ cw = CopyIdle
    /\ fd = FieldIdle
    /\ th = ThreadsIdle
    /\ cdc = CodecIdle
    /\ tn = NamingIdle
    /\ vl = ValidationIdle
    /\ pg = ClientIdle
    /\ pl = PoolIdle
    /\ hs = HasherIdle
    /\ tg = TagIdle

SpecRegister == InitRegister /\ [][NextRegister]_vars

InitThreads ==
    /\ th \in ThreadWorlds
    /\ oneof = OneOfIdle
    /\ olast = NoCall
    /\ arr = ArrayIdle
    /\ alast = NoOp
    /\ ast = AstIdle
    /\ cs = CaseIdle
    /\ sq = SetOpsIdle
    /\ cw = CopyIdle
    /\ fd = FieldIdle
    /\ rg = RegisterIdle
    /\ cdc = CodecIdle
    /\ tn = NamingIdle
    /\ vl = ValidationIdle
    /\ pg = ClientIdle
    /\ pl = PoolIdle
    /\ hs = HasherIdle
    /\ tg = TagIdle

SpecThreads == InitThreads /\ [][NextThreads]_vars

InitCodec ==
    /\ cdc \in CodecWorlds
    /\ oneof = OneOfIdle
    /\ olast = NoCall
    /\ arr = ArrayIdle
    /\ alast = NoOp
    /\ ast = AstIdle
    /\ cs = CaseIdle
    /\ sq = SetOpsIdle
    /\ cw = CopyIdle
    /\ fd = FieldIdle
    /\ rg = RegisterIdle
    /\ th = ThreadsIdle
    /\ tn = NamingIdle
    /\ vl = ValidationIdle
    /\ pg = ClientIdle
    /\ pl = PoolIdle
    /\ hs = HasherIdle
    /\ tg = TagIdle

SpecCodec == InitCodec /\ [][NextCodec]_vars

InitNaming ==
    /\ tn \in NamingWorlds
    /\ oneof = OneOfIdle
    /\ olast = NoCall
    /\ arr = ArrayIdle
    /\ alast = NoOp
    /\ ast = AstIdle
    /\ cs = CaseIdle
    /\ sq = SetOpsIdle
    /\ cw = CopyIdle
    /\ fd = FieldIdle
    /\ rg = RegisterIdle
    /\ th = ThreadsIdle
    /\ cdc = CodecIdle
    /\ vl = ValidationIdle
    /\ pg = ClientIdle
    /\ pl = PoolIdle
    /\ hs = HasherIdle
    /\ tg = TagIdle

SpecNaming == InitNaming /\ [][NextNaming]_vars

InitValidation ==
    /\ vl \in ValidationWorlds
    /\ oneof = OneOfIdle
    /\ olast = NoCall
    /\ arr = ArrayIdle
    /\ alast = NoOp
    /\ ast = AstIdle
    /\ cs = CaseIdle
    /\ sq = SetOpsIdle
    /\ cw = CopyIdle
    /\ fd = FieldIdle
    /\ rg = RegisterIdle
    /\ th = ThreadsIdle
    /\ cdc = CodecIdle
    /\ tn = NamingIdle
    /\ pg = ClientIdle
    /\ pl = PoolIdle
    /\ hs = HasherIdle
    /\ tg = TagIdle

SpecValidation == InitValidation /\ [][NextValidation]_vars

InitClient ==
    /\ pg \in ClientWorlds
    /\ oneof = OneOfIdle
    /\ olast = NoCall
    /\ arr = ArrayIdle
    /\ alast = NoOp
    /\ ast = AstIdle
    /\ cs = CaseIdle
    /\ sq = SetOpsIdle
    /\ cw = CopyIdle
    /\ fd = FieldIdle
    /\ rg = RegisterIdle
    /\ th = ThreadsIdle
    /\ cdc = CodecIdle
    /\ tn = NamingIdle
    /\ vl = ValidationIdle
    /\ pl = PoolIdle
    /\ hs = HasherIdle
    /\ tg = TagIdle

SpecClient == InitClient /\ [][NextClient]_vars

InitPool ==
    /\ pl \in PoolWorlds
    /\ oneof = OneOfIdle
    /\ olast = NoCall
    /\ arr = ArrayIdle
    /\ alast = NoOp
    /\ ast = AstIdle
    /\ cs = CaseIdle
    /\ sq = SetOpsIdle
    /\ cw = CopyIdle
    /\ fd = FieldIdle
    /\ rg = RegisterIdle
    /\ th = ThreadsIdle
    /\ cdc = CodecIdle
    /\ tn = NamingIdle
    /\ vl = ValidationIdle
    /\ pg = ClientIdle
    /\ hs = HasherIdle
    /\ tg = TagIdle

SpecPool == InitPool /\ [][NextPool]_vars

InitHasher ==
    /\ hs \in HasherWorlds
    /\ oneof = OneOfIdle
    /\ olast = NoCall
    /\ arr = ArrayIdle
    /\ alast = NoOp
    /\ ast = AstIdle
    /\ cs = CaseIdle
    /\ sq = SetOpsIdle
    /\ cw = CopyIdle
    /\ fd = FieldIdle
    /\ rg = RegisterIdle
    /\ th = ThreadsIdle
    /\ cdc = CodecIdle
    /\ tn = NamingIdle
    /\ vl = ValidationIdle
    /\ pg = ClientIdle
    /\ pl = PoolIdle
    /\ tg = TagIdle

SpecHasher == InitHasher /\ [][NextHasher]_vars

InitTag ==
    /\ tg \in TagWorlds
    /\ oneof = OneOfIdle
    /\ olast = NoCall
    /\ arr = ArrayIdle
    /\ alast = NoOp
    /\ ast = AstIdle
    /\ cs = CaseIdle
    /\ sq = SetOpsIdle
    /\ cw = CopyIdle
    /\ fd = FieldIdle
    /\ rg = RegisterIdle
    /\ th = ThreadsIdle
    /\ cdc = CodecIdle
    /\ tn = NamingIdle
    /\ vl = ValidationIdle
    /\ pg = ClientIdle
    /\ pl = PoolIdle
    /\ hs = HasherIdle

SpecTag == InitTag /\ [][NextTag]_vars

====
